---- MODULE Spec2Model ----
(***************************************************************************)
(* apricotpy: the callback scheduler (base and persistable loop), handles, *)
(* timers, the Future state machine, tasks, gather, and the persistence    *)
(* engine: Bundle and Unbundler over a graph of persistables, bundled      *)
(* handles and bundled tasks unbundled into a second loop.                 *)
(*                                                                         *)
(* Time is counted in units of the loop's clock resolution (0.1 s), so a   *)
(* timer is due in a tick when  _when < time() + clock_resolution.         *)
(* User code runs either at top level (no tick active) or as the body of   *)
(* the callback the innermost tick is running; the loop itself only steps  *)
(* between callbacks.                                                      *)
(***************************************************************************)
EXTENDS Integers, Sequences, FiniteSets, TLC

\* ---------------------------------------------------------------- bounds
MaxHandles == 2        \* handles ever created by one loop
MaxTime == 1           \* last instant of the clock
MaxDepth == 2          \* nested tick()/run_forever() activations explored
MaxCallbacks == 3      \* length of a future's done-callback list
MaxTaskHandles == 7    \* handles ever created by a loop that has a task
MaxBundles == 1        \* Bundle(...) calls explored
MaxUnbundles == 2      \* unbundle(loop) calls of a task's bundle explored

\* ------------------------------------------------------ program constants
clock_resolution == 1  \* BaseEventLoop.clock_resolution, in units of 0.1 s
RAN == -1              \* persistable Handle.RAN
NoneKey == -2          \* None, which Python 2 orders below every number

Fns == {"a", "b"}              \* callables registered as done callbacks
LoopFns == {"a"}               \* callables handed to call_soon/call_at
Values == {5, 6}                \* results given to set_result
Exceptions == {"E"}            \* exceptions given to set_exception
Futs == {1}                    \* futures created on the loop
ExcKinds == {"Exception", "BaseException"}  \* what a callback may raise
Tasks == {1}                   \* loop objects created with loop.create
GFuts == {1, 2, 3}             \* futures of the gather scenario
GatherFut == 3                 \* the future gather() returns
_NO_RESULT == -3               \* tasks._NO_RESULT, a value no step returns

\* bound methods the library itself schedules or registers
InternalFns == {"_step", "_await_done", "_insert", "_remove", "_child_done",
                "_run_until_complete_cb"}

_PENDING == "PENDING"
_CANCELLED == "CANCELLED"
_FINISHED == "FINISHED"

VARIABLES
    pers,        \* persistables, the Bundle made of them, what unbundle made
    persist,     \* TRUE: persistable.BaseEventLoop, FALSE: apricotpy.BaseEventLoop
    now,         \* what loop.time() returns
    handles,     \* every Handle/TimerHandle created, by creation order
    ready,       \* _CallbackLoop._ready
    scheduled,   \* _CallbackLoop._scheduled (heap, as the list heapq keeps)
    stack,       \* active tick()/run_forever() activations, innermost last
    stopping,    \* BaseEventLoop._stopping
    thread_id,   \* BaseEventLoop._thread_id (0 is None)
    fut,         \* the futures: _state, _result, _exception, _callbacks
    log,         \* handles whose callable was invoked, in invocation order
    handled,     \* handles whose exception reached call_exception_handler
    ret,         \* outcome of the last call whose outcome user code looks at
    task,        \* the tasks (TaskMixin over AwaitableMixin over LoopObject)
    gather       \* the _GatheringFuture: _children, _n_done and its future

vars == <<pers, persist, now, handles, ready, scheduled, stack, stopping,
          thread_id,
          fut, log, handled, ret, task, gather>>

\* --------------------------------------------------------------- helpers
Ids(s) == 1..Len(s)

Range(s) == {s[i] : i \in Ids(s)}

Outcome(op, out, val) == [op |-> op, out |-> out, val |-> val]

InLog(h) == \E i \in Ids(log) : log[i] = h

Pos(h) == CHOOSE i \in Ids(log) : log[i] = h

Top == stack[Len(stack)]

\* user code is executing: at top level or inside the running callback,
\* which is a callable of the user and not a method of the library
UserCtx ==
    IF stack = <<>> THEN TRUE
    ELSE IF Top.cur = 0 THEN FALSE
    ELSE handles[Top.cur].fn \notin InternalFns

\* the handle whose callback is executing (0 at top level)
SetTop(f, v) == [stack EXCEPT ![Len(stack)] = [@ EXCEPT ![f] = v]]

\* events.Handle.__init__ / events.TimerHandle.__init__. Three fields are
\* history: at is the fire time asked for, seen the number of handles that
\* existed when a timer was promoted to the ready list (0 before), counted
\* tells that the handle was cancelled by a callback of a tick that had
\* already counted it into its ready set
NewHandle(fn, arg, timer, when) ==
    [fn |-> fn, arg |-> arg, timer |-> timer, when |-> when,
     cancelled |-> FALSE, when_ready |-> NoneKey,
     at |-> when, seen |-> 0, counted |-> FALSE]

\* __lt__ written with the comparison the wrong way round
HandleGt(hs, x, y) ==
    IF hs[x].timer \/ hs[y].timer
    THEN hs[x].when > hs[y].when
    ELSE hs[x].when_ready > hs[y].when_ready

\* TimerHandle.__lt__ on _when; persistable Handle.__lt__ on _when_ready.
\* A Handle compared with a TimerHandle is decided by the subclass, on _when.
HandleLt(hs, x, y) ==
    IF hs[x].timer \/ hs[y].timer
    THEN hs[x].when < hs[y].when
    ELSE hs[x].when_ready < hs[y].when_ready

\* heapq._siftdown: positions are 0-based as in heapq
RECURSIVE SiftDown(_, _, _, _, _)
SiftDown(hs, heap, newitem, startpos, pos) ==
    IF pos > startpos
    THEN LET parentpos == (pos - 1) \div 2
             parent == heap[parentpos + 1]
         IN IF HandleLt(hs, newitem, parent)
            THEN SiftDown(hs, [heap EXCEPT ![pos + 1] = parent], newitem,
                          startpos, parentpos)
            ELSE [heap EXCEPT ![pos + 1] = newitem]
    ELSE [heap EXCEPT ![pos + 1] = newitem]

\* heapq.heappush
HeapPush(hs, heap, item) ==
    SiftDown(hs, Append(heap, item), item, 0, Len(heap))

\* heapq._siftup: move the smaller child up until a leaf, then sift down
RECURSIVE SiftUp(_, _, _, _, _)
SiftUp(hs, heap, newitem, startpos, pos) ==
    LET endpos == Len(heap)
        childpos == 2 * pos + 1
        rightpos == childpos + 1
        child == IF rightpos < endpos
                    /\ ~HandleLt(hs, heap[childpos + 1], heap[rightpos + 1])
                 THEN rightpos ELSE childpos
    IN IF childpos < endpos
       THEN SiftUp(hs, [heap EXCEPT ![pos + 1] = heap[child + 1]], newitem,
                   startpos, child)
       ELSE SiftDown(hs, heap, newitem, startpos, pos)

\* heapq.heappop: the heap that is left (the popped item is heap[1])
HeapPopRest(hs, heap) ==
    LET lastelt == heap[Len(heap)]
        rest == SubSeq(heap, 1, Len(heap) - 1)
    IN IF rest = <<>> THEN <<>>
       ELSE SiftUp(hs, [rest EXCEPT ![1] = lastelt], lastelt, 0, 0)

\* a ready list that takes new handles at its front
InsertReadyFront(hs, rd, h) ==
    [hs |-> IF persist THEN [hs EXCEPT ![h].when = now] ELSE hs,
     rd |-> <<h>> \o rd]

\* _CallbackLoop._insert_ready (persistable) / self._ready.append (base):
\* the pair of handle table and ready list after handle h became ready
InsertReady(hs, rd, h) ==
    IF persist
    THEN LET hs2 == [hs EXCEPT ![h].when = now]
         IN [hs |-> hs2, rd |-> HeapPush(hs2, rd, h)]
    ELSE [hs |-> hs, rd |-> Append(rd, h)]

\* _CallbackLoop.call_soon: a new Handle(fn, args) made ready
CallSoonOn(hs, rd, fn, arg) ==
    LET h == Len(hs) + 1
    IN InsertReady(Append(hs, NewHandle(fn, arg, FALSE, 0)), rd, h)

\* _schedule_callbacks that walks the callbacks from the last to the first
RECURSIVE CallSoonAllReversed(_, _, _, _)
CallSoonAllReversed(hs, rd, cbs, f) ==
    IF cbs = <<>> THEN [hs |-> hs, rd |-> rd]
    ELSE LET one == CallSoonOn(hs, rd, cbs[Len(cbs)], f)
         IN CallSoonAllReversed(one.hs, one.rd, SubSeq(cbs, 1, Len(cbs) - 1), f)

\* the loop of Future._schedule_callbacks: call_soon(callback, self) for each
RECURSIVE CallSoonAll(_, _, _, _)
CallSoonAll(hs, rd, cbs, f) ==
    IF cbs = <<>> THEN [hs |-> hs, rd |-> rd]
    ELSE LET one == CallSoonOn(hs, rd, Head(cbs), f)
         IN CallSoonAll(one.hs, one.rd, Tail(cbs), f)

\* the timer-promotion loop of _CallbackLoop._tick
RECURSIVE Promote(_, _, _)
Promote(hs, rd, sch) ==
    IF sch = <<>>
    THEN [hs |-> hs, rd |-> rd, sch |-> sch]
    ELSE IF hs[sch[1]].when >= now + clock_resolution
    THEN [hs |-> hs, rd |-> rd, sch |-> sch]
    ELSE LET h == sch[1]
             ins == InsertReady([hs EXCEPT ![h].seen = Len(hs)], rd, h)
         IN Promote(ins.hs, ins.rd, HeapPopRest(hs, sch))

\* a task that loop.create has not made yet
NoTask ==
    [type |-> "None", state |-> _PENDING, result |-> 0, exception |-> "None",
     callbacks |-> <<>>, in_loop |-> FALSE, registered |-> FALSE,
     awaiting |-> 0, next_step |-> "None", awaiting_result |-> _NO_RESULT,
     paused |-> FALSE, callback_handle |-> 0, calls |-> <<>>, ticks |-> 0]

\* no gather future was made
NoGather == [children |-> <<>>, n_done |-> 0, cancel_true |-> FALSE]

\* values a persistable keeps in its store: an int, another persistable, a
\* tuple (not supported by a bundle); Ref is what a bundle keeps for a
\* persistable, Inst what a decoded value holds for the instance made of it
PInt == [t |-> "int", n |-> 5]
PTuple == [t |-> "tuple", n |-> 0]
PObj(i) == [t |-> "obj", n |-> i]
Ref(i) == [t |-> "ref", n |-> i]
Inst(k) == [t |-> "inst", n |-> k]

\* the store of a persistable: one value, a list of values or a dict whose
\* string keys are the places of the values
PStore(t, items) == [t |-> t, items |-> items]

\* root._bundles has no entry for the persistable
NoEntry ==
    [present |-> FALSE, t |-> "none", items |-> <<>>, lref |-> FALSE,
     saves |-> 0]

\* nothing persistable was made, bundled or unbundled
NoPers ==
    [heap |-> <<>>, registry |-> {}, made |-> FALSE, bundles |-> <<>>,
     objs |-> <<>>, saved |-> <<>>, copies |-> <<>>, loopent |-> "absent",
     two |-> FALSE, other |-> <<>>, cur |-> 1, owned |-> FALSE,
     tb |-> <<>>, copy |-> {}, n |-> 0]

Init ==
    /\ persist \in BOOLEAN
    /\ now = 0
    /\ handles = <<>>
    /\ ready = <<>>
    /\ scheduled = <<>>
    /\ stack = <<>>
    /\ stopping = FALSE
    /\ thread_id = 0
    /\ fut = [f \in Futs |-> [state |-> _PENDING, result |-> 0,
                              exception |-> "None", callbacks |-> <<>>]]
    /\ log = <<>>
    /\ handled = {}
    /\ ret = Outcome("init", "ok", 0)
    /\ task = [t \in Tasks |-> NoTask]
    /\ gather = NoGather
    /\ pers = NoPers

\* handles a loop may create before user code stops scheduling more
HandleCap ==
    IF \E t \in Tasks : task[t].type # "None"
    THEN MaxTaskHandles ELSE MaxHandles

\* ------------------------------------------------------------- scheduler
\* BaseEventLoop.call_soon -> _CallbackLoop.call_soon
CallSoonUpTo(cap, fn) ==
    /\ UserCtx
    /\ Len(handles) < cap
    /\ LET r == CallSoonOn(handles, ready, fn, 0)
       IN handles' = r.hs /\ ready' = r.rd
    /\ UNCHANGED <<task, gather,
                   pers, persist, now, scheduled, stack, stopping, thread_id, fut,
                   log, handled, ret>>

CallSoon(fn) == CallSoonUpTo(HandleCap, fn)

\* BaseEventLoop.call_at -> _CallbackLoop.call_at
CallAt(when, fn) ==
    /\ UserCtx
    /\ Len(handles) < HandleCap
    /\ LET hs == Append(handles, NewHandle(fn, 0, TRUE, when))
       IN /\ handles' = hs
          /\ scheduled' = HeapPush(hs, scheduled, Len(hs))
    /\ UNCHANGED <<task, gather,
                   pers, persist, now, ready, stack, stopping, thread_id, fut,
                   log, handled, ret>>

\* BaseEventLoop.call_later -> _CallbackLoop.call_later
CallLater(delay, fn) ==
    /\ delay > 0
    /\ CallAt(now + delay, fn)

\* handle h is among the entries the running tick still has to pop
Counted(h) ==
    IF stack = <<>> THEN FALSE
    ELSE \E i \in Ids(ready) : i <= Top.todo /\ ready[i] = h

\* Handle.cancel
HandleCancel(h) ==
    /\ UserCtx
    /\ IF handles[h].cancelled
       THEN UNCHANGED handles
       ELSE /\ handles' = [handles EXCEPT ![h].cancelled = TRUE,
                                          ![h].fn = "None",
                                          ![h].arg = 0,
                                          ![h].counted = Counted(h)]
    /\ UNCHANGED <<task, gather,
                   pers, persist, now, ready, scheduled, stack, stopping, thread_id,
                   fut, log, handled, ret>>

\* BaseEventLoop.stop
Stop ==
    /\ UserCtx
    /\ stopping' = TRUE
    /\ UNCHANGED <<task, gather,
                   pers, persist, now, handles, ready, scheduled, stack, thread_id,
                   fut, log, handled, ret>>

\* the clock moves on (loop.time() never goes back)
AdvanceClock ==
    /\ now < MaxTime
    /\ now' = now + 1
    /\ UNCHANGED <<task, gather,
                   pers, persist, handles, ready, scheduled, stack, stopping,
                   thread_id, fut, log, handled, ret>>

\* _RunContext.__enter__: the guard reads the loop's _thread_id
is_running == thread_id # 0

\* the activation is a run_forever(), called directly or by run_until_complete
Forever(kind) == kind \in {"forever", "until"}

\* the call of user code an activation belongs to
OpOf(kind) ==
    IF kind = "forever" THEN "run_forever"
    ELSE IF kind = "until" THEN "run_until_complete" ELSE "tick"

\* the first half of _CallbackLoop._tick: promote due timers, count the ready
BeginTick(kind) ==
    LET p == Promote(handles, ready, scheduled)
    IN /\ handles' = p.hs
       /\ ready' = p.rd
       /\ scheduled' = p.sch
       /\ stack' = IF kind = "enter"
                   THEN Append(stack, [kind |-> "tick", todo |-> Len(p.rd),
                                       cur |-> 0, aw |-> 0])
                   ELSE SetTop("todo", Len(p.rd))

\* history: every task that exists has seen one more tick() begin (the
\* count stops at 3)
TickSeen ==
    [t \in Tasks |->
        IF task[t].type = "None" \/ task[t].ticks >= 3 THEN task[t]
        ELSE [task[t] EXCEPT !.ticks = @ + 1]]

\* BaseEventLoop.tick: with _RunContext(self): self._run_once()
Tick ==
    /\ UserCtx
    /\ Len(stack) < MaxDepth
    /\ IF is_running
       THEN /\ ret' = Outcome("tick", "RuntimeError", 0)
            /\ UNCHANGED <<handles, ready, scheduled, stack, task>>
       ELSE /\ BeginTick("enter")
            /\ task' = TickSeen
            /\ UNCHANGED ret
    /\ UNCHANGED <<gather, pers, persist, now, stopping, thread_id, fut, log,
                   handled>>

\* BaseEventLoop.run_forever up to the first test of the while loop
RunForever ==
    /\ UserCtx
    /\ Len(stack) < MaxDepth
    /\ IF is_running
       THEN /\ ret' = Outcome("run_forever", "RuntimeError", 0)
            /\ UNCHANGED stack
       ELSE /\ stack' = Append(stack, [kind |-> "forever", todo |-> 0,
                                       cur |-> 0, aw |-> 0])
            /\ UNCHANGED ret
    /\ UNCHANGED <<task, gather,
                   pers, persist, now, handles, ready, scheduled, stopping,
                   thread_id, fut, log, handled>>

\* run_forever: while not self._stopping: self._run_once(); finally reset
LoopCheck ==
    /\ stack # <<>>
    /\ Top.kind = "forever" /\ Top.cur = 0 /\ Top.todo = 0
    /\ IF stopping
       THEN /\ stopping' = FALSE
            /\ stack' = SubSeq(stack, 1, Len(stack) - 1)
            /\ UNCHANGED <<handles, ready, scheduled, ret>>
       ELSE /\ BeginTick("again")
            /\ UNCHANGED <<stopping, ret>>
    /\ UNCHANGED <<task, gather,
                   pers, persist, now, thread_id, fut, log, handled>>

\* tick() called by user code that is not itself run by the loop
TopTick ==
    /\ stack = <<>>
    /\ Tick

\* tick() returns: _RunContext.__exit__ touches only the context object
TickReturn ==
    /\ stack # <<>>
    /\ Top.kind = "tick" /\ Top.cur = 0 /\ Top.todo = 0
    /\ stack' = SubSeq(stack, 1, Len(stack) - 1)
    /\ UNCHANGED <<task, gather,
                   pers, persist, now, handles, ready, scheduled, stopping,
                   thread_id, fut, log, handled, ret>>

\* a run phase that does not look at the cancelled flag
SkipsNever(h) == FALSE

\* "if handle._cancelled: continue"
Skips(h) == handles[h].cancelled

\* one pass of "for _ in range(todo)": popleft, skip if cancelled, else _run
\* up to the call of the callable
RunNext ==
    /\ stack # <<>>
    /\ Top.cur = 0 /\ Top.todo > 0
    /\ IF ready = <<>>
       THEN \* popleft()/pop(0) on an empty queue: IndexError leaves the loop
            /\ stack' = SubSeq(stack, 1, Len(stack) - 1)
            /\ stopping' = IF Forever(Top.kind) THEN FALSE ELSE stopping
            /\ ret' = Outcome(OpOf(Top.kind), "IndexError", 0)
            /\ UNCHANGED <<ready, log>>
       ELSE LET h == Head(ready)
            IN /\ ready' = Tail(ready)
               /\ IF Skips(h)
                  THEN /\ stack' = SetTop("todo", Top.todo - 1)
                       /\ UNCHANGED log
                  ELSE /\ stack' = [stack EXCEPT ![Len(stack)] =
                                       [@ EXCEPT !.todo = @ - 1, !.cur = h]]
                       /\ log' = Append(log, h)
               /\ UNCHANGED <<stopping, ret>>
    /\ UNCHANGED <<task, gather,
                   pers, persist, now, handles, scheduled, thread_id, fut, handled>>

\* persistable Handle._run marks the handle as run once the base _run returned
MarkRan(h) ==
    IF persist THEN [handles EXCEPT ![h].when_ready = RAN] ELSE handles

\* the callable returns normally; Handle._run returns
CallbackReturn ==
    /\ stack # <<>>
    /\ UserCtx
    /\ handles' = MarkRan(Top.cur)
    /\ stack' = SetTop("cur", 0)
    /\ UNCHANGED <<task, gather,
                   pers, persist, now, ready, scheduled, stopping, thread_id, fut,
                   log, handled, ret>>

\* a _run without the try/except: whatever the callable raises ends the tick
CallbackRaiseAborts(kind) ==
    /\ stack # <<>>
    /\ Top.cur # 0
    /\ stack' = SubSeq(stack, 1, Len(stack) - 1)
    /\ stopping' = IF Forever(Top.kind) THEN FALSE ELSE stopping
    /\ ret' = Outcome(OpOf(Top.kind), kind, Top.cur)
    /\ UNCHANGED <<task, gather,
                   pers, persist, now, handles, ready, scheduled, thread_id, fut,
                   log, handled>>

\* the callable raises. Handle._run: "except Exception" passes the exception
\* to call_exception_handler, which swallows whatever the handlers raise;
\* anything that is not an Exception leaves _run, _tick and tick()/run_forever
CallbackRaise(kind) ==
    /\ stack # <<>>
    /\ UserCtx
    /\ IF kind = "Exception"
       THEN /\ handled' = handled \cup {Top.cur}
            /\ handles' = MarkRan(Top.cur)
            /\ stack' = SetTop("cur", 0)
            /\ UNCHANGED <<stopping, ret>>
       ELSE /\ stack' = SubSeq(stack, 1, Len(stack) - 1)
            /\ stopping' = IF Forever(Top.kind) THEN FALSE ELSE stopping
            /\ ret' = Outcome(OpOf(Top.kind), "BaseException", Top.cur)
            /\ UNCHANGED <<handled, handles>>
    /\ UNCHANGED <<task, gather,
                   pers, persist, now, ready, scheduled, thread_id, fut, log>>

\* ---------------------------------------------------------------- Future
\* Future.done
done(f) == fut[f].state # _PENDING

\* Future.cancelled
cancelled(f) == fut[f].state = _CANCELLED

\* Future._schedule_callbacks: the handle table and ready list afterwards
ScheduleCallbacks(f) == CallSoonAll(handles, ready, fut[f].callbacks, f)

\* room for the handles _schedule_callbacks creates
RoomFor(f) == Len(handles) + Len(fut[f].callbacks) <= HandleCap

\* set_result without the test "if self.done(): raise InvalidStateError"
SetResultUnguarded(f, v) ==
    /\ UserCtx
    /\ RoomFor(f)
    /\ fut' = [fut EXCEPT ![f].result = v, ![f].state = _FINISHED,
                          ![f].callbacks = <<>>]
    /\ handles' = ScheduleCallbacks(f).hs
    /\ ready' = ScheduleCallbacks(f).rd
    /\ ret' = Outcome("set_result", "ok", f)
    /\ UNCHANGED <<task, gather,
                   pers, persist, now, scheduled, stack, stopping, thread_id, log,
                   handled>>

\* Future.set_result
SetResult(f, v) ==
    /\ UserCtx
    /\ RoomFor(f)
    /\ IF done(f)
       THEN /\ ret' = Outcome("set_result", "InvalidStateError", f)
            /\ UNCHANGED <<fut, handles, ready>>
       ELSE /\ fut' = [fut EXCEPT ![f].result = v, ![f].state = _FINISHED,
                                  ![f].callbacks = <<>>]
            /\ handles' = ScheduleCallbacks(f).hs
            /\ ready' = ScheduleCallbacks(f).rd
            /\ ret' = Outcome("set_result", "ok", f)
    /\ UNCHANGED <<task, gather,
                   pers, persist, now, scheduled, stack, stopping, thread_id, log,
                   handled>>

\* Future.set_exception
SetException(f, e) ==
    /\ UserCtx
    /\ RoomFor(f)
    /\ IF done(f)
       THEN /\ ret' = Outcome("set_exception", "InvalidStateError", f)
            /\ UNCHANGED <<fut, handles, ready>>
       ELSE /\ fut' = [fut EXCEPT ![f].exception = e, ![f].state = _FINISHED,
                                  ![f].callbacks = <<>>]
            /\ handles' = ScheduleCallbacks(f).hs
            /\ ready' = ScheduleCallbacks(f).rd
            /\ ret' = Outcome("set_exception", "ok", f)
    /\ UNCHANGED <<task, gather,
                   pers, persist, now, scheduled, stack, stopping, thread_id, log,
                   handled>>

\* Future.cancel
Cancel(f) ==
    /\ UserCtx
    /\ RoomFor(f)
    /\ IF done(f)
       THEN /\ ret' = Outcome("cancel", "False", f)
            /\ UNCHANGED <<fut, handles, ready>>
       ELSE /\ fut' = [fut EXCEPT ![f].state = _CANCELLED,
                                  ![f].callbacks = <<>>]
            /\ handles' = ScheduleCallbacks(f).hs
            /\ ready' = ScheduleCallbacks(f).rd
            /\ ret' = Outcome("cancel", "True", f)
    /\ UNCHANGED <<task, gather,
                   pers, persist, now, scheduled, stack, stopping, thread_id, log,
                   handled>>

\* result() that forgets the test for a future that is still pending
ResultOfUnchecked(f) ==
    IF cancelled(f) THEN Outcome("result", "CancelledError", f)
    ELSE IF fut[f].exception # "None"
         THEN Outcome("result", fut[f].exception, f)
    ELSE Outcome("result", "ok", fut[f].result)

\* what Future.result() returns or raises
ResultOf(f) ==
    IF cancelled(f) THEN Outcome("result", "CancelledError", f)
    ELSE IF fut[f].state # _FINISHED
         THEN Outcome("result", "InvalidStateError", f)
    ELSE IF fut[f].exception # "None"
         THEN Outcome("result", fut[f].exception, f)
    ELSE Outcome("result", "ok", fut[f].result)

\* Future.result
Result(f) ==
    /\ UserCtx
    /\ ret' = ResultOf(f)
    /\ UNCHANGED <<task, gather,
                   pers, persist, now, handles, ready, scheduled, stack, stopping,
                   thread_id, fut, log, handled>>

\* add_done_callback that calls fn at once on a future that is done
AddDoneCallbackSync(f, fn) ==
    /\ UserCtx
    /\ IF done(f)
       THEN /\ Len(handles) < HandleCap
            /\ handles' = Append(handles, NewHandle(fn, f, FALSE, 0))
            /\ log' = Append(log, Len(handles) + 1)
            /\ UNCHANGED <<fut, ready>>
       ELSE /\ Len(fut[f].callbacks) < MaxCallbacks
            /\ fut' = [fut EXCEPT ![f].callbacks = Append(@, fn)]
            /\ UNCHANGED <<handles, ready, log>>
    /\ ret' = Outcome("add_done_callback", "None", f)
    /\ UNCHANGED <<task, gather,
                   pers, persist, now, scheduled, stack, stopping, thread_id,
                   handled>>

\* Future.add_done_callback
AddDoneCallback(f, fn) ==
    /\ UserCtx
    /\ IF done(f)
       THEN /\ Len(handles) < HandleCap
            /\ handles' = CallSoonOn(handles, ready, fn, f).hs
            /\ ready' = CallSoonOn(handles, ready, fn, f).rd
            /\ UNCHANGED fut
       ELSE /\ Len(fut[f].callbacks) < MaxCallbacks
            /\ fut' = [fut EXCEPT ![f].callbacks = Append(@, fn)]
            /\ UNCHANGED <<handles, ready>>
    /\ ret' = Outcome("add_done_callback", "None", f)
    /\ UNCHANGED <<task, gather,
                   pers, persist, now, scheduled, stack, stopping, thread_id, log,
                   handled>>

\* a filter that drops only the first registration of fn
FilteredFirst(cbs, fn) ==
    IF \E i \in Ids(cbs) : cbs[i] = fn
    THEN LET k == CHOOSE i \in Ids(cbs) :
                     cbs[i] = fn /\ \A j \in 1..(i - 1) : cbs[j] # fn
         IN SubSeq(cbs, 1, k - 1) \o SubSeq(cbs, k + 1, Len(cbs))
    ELSE cbs

\* the list comprehension of remove_done_callback: [f for f in cbs if f != fn]
RECURSIVE Filtered(_, _)
Filtered(cbs, fn) ==
    IF cbs = <<>> THEN <<>>
    ELSE IF Head(cbs) # fn THEN <<Head(cbs)>> \o Filtered(Tail(cbs), fn)
    ELSE Filtered(Tail(cbs), fn)

\* Future.remove_done_callback
RemoveDoneCallback(f, fn) ==
    /\ UserCtx
    /\ LET filtered_callbacks == Filtered(fut[f].callbacks, fn)
           removed_count == Len(fut[f].callbacks) - Len(filtered_callbacks)
       IN /\ fut' = [fut EXCEPT ![f].callbacks =
                        IF removed_count # 0 THEN filtered_callbacks ELSE @]
          /\ ret' = Outcome("remove_done_callback", fn, removed_count)
    /\ UNCHANGED <<task, gather,
                   pers, persist, now, handles, ready, scheduled, stack, stopping,
                   thread_id, log, handled>>

\* ----------------------------------------------------------------- tasks
\* the task classes: what execute() returns
TaskTypes == {"Five", "EventuallyFive", "AwaitFive", "AwaitThenContinue",
              "AwaitOnly", "Raises"}

\* the awaitable a task is, as the argument of its done callbacks
TaskAw(t) == 10 + t

\* parameters a step function takes besides self
Arity(fn) == IF fn \in {"finish1", "middle"} THEN 1 ELSE 0

\* what a call of a step function comes to: a value, a directive or a raise
Dir(kind, val, exc, aw, next) ==
    [kind |-> kind, val |-> val, exc |-> exc, aw |-> aw, next |-> next]

\* fn(*args) for the step functions of the task classes: finish() returns 5,
\* finish1(v) returns v, middle(v) returns Continue(self.finish); a call with
\* the wrong number of arguments raises TypeError
CallStep(type, fn, args) ==
    IF Len(args) # Arity(fn) THEN Dir("raise", 0, "TypeError", 0, "None")
    ELSE IF fn = "finish" THEN Dir("value", 5, "None", 0, "None")
    ELSE IF fn = "finish1" THEN Dir("value", args[1], "None", 0, "None")
    ELSE IF fn = "middle" THEN Dir("continue", 0, "None", 0, "finish")
    ELSE IF type = "Five" THEN Dir("value", 5, "None", 0, "None")
    ELSE IF type = "EventuallyFive"
         THEN Dir("continue", 0, "None", 0, "finish")
    ELSE IF type = "AwaitFive" THEN Dir("await", 0, "None", 1, "finish1")
    ELSE IF type = "AwaitThenContinue"
         THEN Dir("await", 0, "None", 1, "middle")
    ELSE IF type = "AwaitOnly" THEN Dir("await", 0, "None", 1, "None")
    ELSE Dir("raise", 0, "E", 0, "None")

\* what a method of a task works on: the handle table, the ready list, the
\* task, the futures, and the exception the method raised ("None" if none)
World(hs, rd, tk, ft, err) ==
    [hs |-> hs, rd |-> rd, tk |-> tk, ft |-> ft, err |-> err]

\* the state a method of task t starts from
Here(t) == World(handles, ready, task[t], fut, "None")

\* the state the method leaves
Apply(w, t) ==
    /\ handles' = w.hs
    /\ ready' = w.rd
    /\ task' = [task EXCEPT ![t] = w.tk]
    /\ fut' = w.ft

\* LoopObject bound to its loop by the constructor loop.create calls with
\* loop=self
BindLoop(tk) == [tk EXCEPT !.in_loop = TRUE]

\* _FutureBase: the state of a Future without loop and callbacks
FutureBaseDone(tk) == tk.state # _PENDING

FutureBaseSetResult(tk, v) ==
    [tk EXCEPT !.state = _FINISHED, !.result = v]

FutureBaseSetException(tk, e) ==
    [tk EXCEPT !.state = _FINISHED, !.exception = e]

FutureBaseCancel(tk) ==
    IF FutureBaseDone(tk) THEN tk ELSE [tk EXCEPT !.state = _CANCELLED]

\* AwaitableMixin._schedule_callbacks
TaskScheduleCallbacks(w, t) ==
    LET r == CallSoonAll(w.hs, w.rd, w.tk.callbacks, TaskAw(t))
    IN [w EXCEPT !.hs = r.hs, !.rd = r.rd, !.tk.callbacks = <<>>]

\* BaseEventLoop.remove -> LoopObject.remove: call_soon(loop._remove, self,
\* fut); nobody holds the future it returns
LoopRemove(w, t) ==
    LET r == CallSoonOn(w.hs, w.rd, "_remove", t)
    IN [w EXCEPT !.hs = r.hs, !.rd = r.rd]

\* "if self.in_loop(): self._schedule_callbacks(); self.loop().remove(self)"
Settled(w, t) ==
    IF w.tk.in_loop THEN LoopRemove(TaskScheduleCallbacks(w, t), t) ELSE w

\* AwaitableMixin.set_result (self._future.set_result raises when done)
AwSetResult(w, t, v) ==
    IF FutureBaseDone(w.tk) THEN [w EXCEPT !.err = "InvalidStateError"]
    ELSE Settled([w EXCEPT !.tk = FutureBaseSetResult(w.tk, v)], t)

\* AwaitableMixin.set_exception
AwSetException(w, t, e) ==
    IF FutureBaseDone(w.tk) THEN [w EXCEPT !.err = "InvalidStateError"]
    ELSE Settled([w EXCEPT !.tk = FutureBaseSetException(w.tk, e)], t)

\* AwaitableMixin.cancel: it has no return statement
AwCancel(w, t) == Settled([w EXCEPT !.tk = FutureBaseCancel(w.tk)], t)

\* what "cancelled = super(TaskMixin, self).cancel()" binds: None
AwCancelReturns(w) == "None"

\* Future.cancel of the awaited future f, called by a task
CancelAwaited(w, f) ==
    IF w.ft[f].state # _PENDING THEN w
    ELSE LET r == CallSoonAll(w.hs, w.rd, w.ft[f].callbacks, f)
         IN [w EXCEPT !.hs = r.hs, !.rd = r.rd,
                      !.ft[f].state = _CANCELLED, !.ft[f].callbacks = <<>>]

\* TaskMixin.cancel
TaskCancelOn(w, t) ==
    LET c == AwCancel(w, t)
    IN IF AwCancelReturns(w) = "True" /\ c.tk.awaiting # 0
       THEN [CancelAwaited(c, c.tk.awaiting) EXCEPT !.tk.awaiting = 0]
       ELSE c

\* TaskMixin._schedule_step
ScheduleStep(w, t) ==
    IF w.tk.callback_handle # 0 THEN [w EXCEPT !.err = "AssertionError"]
    ELSE LET r == CallSoonOn(w.hs, w.rd, "_step", t)
         IN [w EXCEPT !.hs = r.hs, !.rd = r.rd,
                      !.tk.callback_handle = Len(r.hs)]

\* Future.add_done_callback(self._await_done) on the awaited future f
AddAwaitDone(w, f) ==
    IF w.ft[f].state # _PENDING
    THEN LET r == CallSoonOn(w.hs, w.rd, "_await_done", f)
         IN [w EXCEPT !.hs = r.hs, !.rd = r.rd]
    ELSE [w EXCEPT !.ft[f].callbacks = Append(@, "_await_done")]

\* a _step that stores the callback of Continue and does not schedule it
StepOnNoReschedule(w0, t) ==
    LET w == [w0 EXCEPT !.tk.callback_handle = 0]
        first == w.tk.next_step = "None"
        fn == IF first THEN "execute" ELSE w.tk.next_step
        args == IF ~first /\ w.tk.awaiting_result # _NO_RESULT
                THEN <<w.tk.awaiting_result>> ELSE <<>>
        d == CallStep(w.tk.type, fn, args)
        w1 == [w EXCEPT !.tk.calls = Append(@, [fn |-> fn, args |-> args])]
    IN IF d.kind = "raise" THEN AwSetException(w1, t, d.exc)
       ELSE IF d.kind = "value"
            THEN AwSetResult([w1 EXCEPT !.tk.next_step = "None"], t, d.val)
       ELSE IF d.kind = "continue"
            THEN [w1 EXCEPT !.tk.next_step = d.next]
       ELSE AddAwaitDone([w1 EXCEPT !.tk.next_step = d.next,
                                    !.tk.awaiting = d.aw], d.aw)

\* TaskMixin._step
StepOn(w0, t) ==
    LET w == [w0 EXCEPT !.tk.callback_handle = 0]
        first == w.tk.next_step = "None"
        fn == IF first THEN "execute" ELSE w.tk.next_step
        args == IF ~first /\ w.tk.awaiting_result # _NO_RESULT
                THEN <<w.tk.awaiting_result>> ELSE <<>>
        d == CallStep(w.tk.type, fn, args)
        w1 == [w EXCEPT !.tk.calls = Append(@, [fn |-> fn, args |-> args])]
    IN IF d.kind = "raise" THEN AwSetException(w1, t, d.exc)
       ELSE IF d.kind = "value"
            THEN AwSetResult([w1 EXCEPT !.tk.next_step = "None"], t, d.val)
       ELSE IF d.kind = "continue"
            THEN ScheduleStep([w1 EXCEPT !.tk.next_step = d.next], t)
       ELSE AddAwaitDone([w1 EXCEPT !.tk.next_step = d.next,
                                    !.tk.awaiting = d.aw], d.aw)

\* an _await_done that does not look at the exception of the awaitable
AwaitDoneOnNoException(w, t, f) ==
    IF FutureBaseDone(w.tk) THEN w
    ELSE LET w1 == [w EXCEPT !.tk.awaiting = 0]
         IN IF w.ft[f].state = _CANCELLED THEN TaskCancelOn(w1, t)
            ELSE IF w.tk.next_step = "None"
                 THEN AwSetResult(w1, t, w.ft[f].result)
            ELSE ScheduleStep(
                     [w1 EXCEPT !.tk.awaiting_result = w.ft[f].result], t)

\* TaskMixin._await_done(awaitable)
AwaitDoneOn(w, t, f) ==
    IF FutureBaseDone(w.tk) THEN w
    ELSE LET w1 == [w EXCEPT !.tk.awaiting = 0]
         IN IF w.ft[f].state = _CANCELLED THEN TaskCancelOn(w1, t)
            ELSE IF w.ft[f].state = _PENDING
                 THEN [w1 EXCEPT !.err = "InvalidStateError"]
            ELSE IF w.ft[f].exception # "None"
                 THEN AwSetException(w1, t, w.ft[f].exception)
            ELSE IF w.tk.next_step = "None"
                 THEN AwSetResult(w1, t, w.ft[f].result)
            ELSE ScheduleStep(
                     [w1 EXCEPT !.tk.awaiting_result = w.ft[f].result], t)

\* the handle table after handle h ran in the persistable loop
MarkRanIn(hs, h) ==
    IF persist THEN [hs EXCEPT ![h].when_ready = RAN] ELSE hs

\* Handle._run after a method of the library returned or raised err: an
\* Exception goes to call_exception_handler and the tick goes on
Returned(h, err) ==
    /\ handled' = IF err # "None" THEN handled \cup {h} ELSE handled
    /\ stack' = SetTop("cur", 0)

\* the running callback is the bound method fn
Running(fn) ==
    IF stack = <<>> THEN FALSE
    ELSE IF Top.cur = 0 THEN FALSE
    ELSE handles[Top.cur].fn = fn

\* loop.create(task class): the constructor binds the loop and schedules
\* the first step, insert() schedules loop._insert
TaskCreate(t, type) ==
    /\ UserCtx
    /\ task[t].type = "None"
    /\ LET w0 == World(handles, ready,
                       BindLoop([task[t] EXCEPT !.type = type]), fut, "None")
           w1 == ScheduleStep(w0, t)
           r == CallSoonOn(w1.hs, w1.rd, "_insert", t)
       IN Apply([w1 EXCEPT !.hs = r.hs, !.rd = r.rd], t)
    /\ UNCHANGED <<gather, pers, persist, now, scheduled, stack, stopping,
                   thread_id, log, handled, ret>>

\* a tick runs the handle of TaskMixin._step
Step ==
    /\ Running("_step")
    /\ LET h == Top.cur
           t == handles[h].arg
           w == StepOn(Here(t), t)
       IN /\ Apply([w EXCEPT !.hs = MarkRanIn(w.hs, h)], t)
          /\ Returned(h, w.err)
    /\ UNCHANGED <<gather, pers, persist, now, scheduled, stopping, thread_id,
                   log, ret>>

\* a tick runs the handle of TaskMixin._await_done
\* an _await_done that goes on when the task is done already
AwaitDoneUnguarded ==
    /\ Running("_await_done")
    /\ LET h == Top.cur
           f == handles[h].arg
           t == CHOOSE x \in Tasks : TRUE
           w0 == [Here(t) EXCEPT !.tk.awaiting = 0]
           w == IF w0.ft[f].state = _CANCELLED THEN TaskCancelOn(w0, t)
                ELSE IF w0.ft[f].state = _PENDING
                     THEN [w0 EXCEPT !.err = "InvalidStateError"]
                ELSE IF w0.ft[f].exception # "None"
                     THEN AwSetException(w0, t, w0.ft[f].exception)
                ELSE IF w0.tk.next_step = "None"
                     THEN AwSetResult(w0, t, w0.ft[f].result)
                ELSE ScheduleStep(
                         [w0 EXCEPT !.tk.awaiting_result = w0.ft[f].result],
                         t)
       IN /\ Apply([w EXCEPT !.hs = MarkRanIn(w.hs, h)], t)
          /\ Returned(h, w.err)
    /\ UNCHANGED <<gather, pers, persist, now, scheduled, stopping, thread_id,
                   log, ret>>

AwaitDone ==
    /\ Running("_await_done")
    /\ LET h == Top.cur
           f == handles[h].arg
           t == CHOOSE x \in Tasks : TRUE
           w == AwaitDoneOn(Here(t), t, f)
       IN /\ Apply([w EXCEPT !.hs = MarkRanIn(w.hs, h)], t)
          /\ Returned(h, w.err)
    /\ UNCHANGED <<gather, pers, persist, now, scheduled, stopping, thread_id,
                   log, ret>>

\* BaseEventLoop._insert: register the object, on_loop_inserted
Insert ==
    /\ Running("_insert")
    /\ LET h == Top.cur
           t == handles[h].arg
           w0 == [Here(t) EXCEPT !.tk.registered = TRUE, !.tk.in_loop = TRUE]
           w == IF FutureBaseDone(w0.tk) THEN TaskScheduleCallbacks(w0, t)
                ELSE w0
       IN /\ Apply([w EXCEPT !.hs = MarkRanIn(w.hs, h)], t)
          /\ Returned(h, w.err)
    /\ UNCHANGED <<gather, pers, persist, now, scheduled, stopping, thread_id,
                   log, ret>>

\* "if cb._fn.__self__ is obj: cb.cancel()" over _ready and _scheduled
CancelBound(hs, rd, sch) ==
    [h \in Ids(hs) |->
        IF /\ \E i \in Ids(rd \o sch) : (rd \o sch)[i] = h
           /\ hs[h].fn \in {"_step", "_await_done"}
           /\ ~hs[h].cancelled
        THEN [hs[h] EXCEPT !.cancelled = TRUE, !.fn = "None", !.arg = 0,
                           !.counted = Counted(h)]
        ELSE hs[h]]

\* BaseEventLoop._remove: an object that is not registered only fails the
\* future nobody holds; a registered one is told, its callbacks are cancelled
Remove ==
    /\ Running("_remove")
    /\ LET h == Top.cur
           t == handles[h].arg
           w == Here(t)
       IN IF ~w.tk.registered
          THEN /\ Apply([w EXCEPT !.hs = MarkRanIn(w.hs, h)], t)
               /\ Returned(h, "None")
          ELSE IF ~w.tk.in_loop
          THEN /\ Apply([w EXCEPT !.hs = MarkRanIn(w.hs, h)], t)
               /\ Returned(h, "RuntimeError")
          ELSE /\ Apply([w EXCEPT
                           !.hs = MarkRanIn(CancelBound(w.hs, w.rd, scheduled),
                                            h),
                           !.tk.in_loop = FALSE,
                           !.tk.registered = FALSE], t)
               /\ Returned(h, "None")
    /\ UNCHANGED <<gather, pers, persist, now, scheduled, stopping, thread_id,
                   log, ret>>

\* AwaitableMixin.add_done_callback called by user code: call_soon(fn, self)
\* when the awaitable is in a loop and done, else fn joins _callbacks
TaskAddDoneCallback(t, fn) ==
    /\ UserCtx
    /\ task[t].type # "None"
    /\ Len(handles) < HandleCap
    /\ IF task[t].in_loop /\ FutureBaseDone(task[t])
       THEN /\ LET r == CallSoonOn(handles, ready, fn, TaskAw(t))
               IN handles' = r.hs /\ ready' = r.rd
            /\ UNCHANGED task
       ELSE /\ Len(task[t].callbacks) < MaxCallbacks
            /\ task' = [task EXCEPT ![t].callbacks = Append(@, fn)]
            /\ UNCHANGED <<handles, ready>>
    /\ ret' = Outcome("add_done_callback", "None", t)
    /\ UNCHANGED <<gather, pers, persist, now, scheduled, stack, stopping,
                   thread_id, fut, log, handled>>

\* TaskMixin.cancel called by user code
TaskCancel(t) ==
    /\ UserCtx
    /\ task[t].type # "None"
    /\ Len(handles) < HandleCap
    /\ Apply(TaskCancelOn(Here(t), t), t)
    /\ ret' = Outcome("task.cancel", AwCancelReturns(Here(t)), t)
    /\ UNCHANGED <<gather, pers, persist, now, scheduled, stack, stopping,
                   thread_id, log, handled>>

\* a pause that forgets the scheduled step handle
TaskPauseNoCancel(t) ==
    /\ UserCtx
    /\ task[t].type # "None"
    /\ IF task[t].paused
       THEN /\ ret' = Outcome("pause", "True", t)
            /\ UNCHANGED <<task, handles>>
       ELSE IF FutureBaseDone(task[t])
       THEN /\ ret' = Outcome("pause", "False", t)
            /\ UNCHANGED <<task, handles>>
       ELSE /\ task' = [task EXCEPT ![t].callback_handle = 0,
                                    ![t].paused = TRUE]
            /\ ret' = Outcome("pause", "True", t)
            /\ UNCHANGED handles
    /\ UNCHANGED <<gather, pers, persist, now, ready, scheduled, stack, stopping,
                   thread_id, fut, log, handled>>

\* TaskMixin.pause
TaskPause(t) ==
    /\ UserCtx
    /\ task[t].type # "None"
    /\ IF task[t].paused
       THEN /\ ret' = Outcome("pause", "True", t)
            /\ UNCHANGED <<task, handles>>
       ELSE IF FutureBaseDone(task[t])
       THEN /\ ret' = Outcome("pause", "False", t)
            /\ UNCHANGED <<task, handles>>
       ELSE LET h == task[t].callback_handle
            IN /\ handles' = IF h = 0 THEN handles
                              ELSE IF handles[h].cancelled THEN handles
                              ELSE [handles EXCEPT ![h].cancelled = TRUE,
                                                   ![h].fn = "None",
                                                   ![h].arg = 0,
                                                   ![h].counted = Counted(h)]
               /\ task' = [task EXCEPT ![t].callback_handle = 0,
                                       ![t].paused = TRUE]
               /\ ret' = Outcome("pause", "True", t)
    /\ UNCHANGED <<gather, pers, persist, now, ready, scheduled, stack, stopping,
                   thread_id, fut, log, handled>>

\* TaskMixin.play
\* a play() that schedules a step whether or not the task is awaiting
TaskPlayAwaiting(t) ==
    /\ UserCtx
    /\ task[t].type # "None"
    /\ Len(handles) < HandleCap
    /\ IF FutureBaseDone(task[t]) \/ ~task[t].paused
       THEN /\ ret' = Outcome("play", "False", t)
            /\ UNCHANGED <<task, handles, ready, fut>>
       ELSE LET w == ScheduleStep([Here(t) EXCEPT !.tk.paused = FALSE], t)
            IN /\ Apply(w, t)
               /\ ret' = Outcome("play", IF w.err = "None" THEN "True"
                                         ELSE w.err, t)
    /\ UNCHANGED <<gather, pers, persist, now, scheduled, stack, stopping,
                   thread_id, log, handled>>

TaskPlay(t) ==
    /\ UserCtx
    /\ task[t].type # "None"
    /\ Len(handles) < HandleCap
    /\ IF FutureBaseDone(task[t]) \/ ~task[t].paused
       THEN /\ ret' = Outcome("play", "False", t)
            /\ UNCHANGED <<task, handles, ready, fut>>
       ELSE LET w0 == [Here(t) EXCEPT !.tk.paused = FALSE]
                w == IF w0.tk.awaiting = 0 THEN ScheduleStep(w0, t) ELSE w0
            IN /\ Apply(w, t)
               /\ ret' = Outcome("play", IF w.err = "None" THEN "True"
                                         ELSE w.err, t)
    /\ UNCHANGED <<gather, pers, persist, now, scheduled, stack, stopping,
                   thread_id, log, handled>>

\* ------------------------------------------------------ Bundle, Unbundler
\* the persistables of a graph; persistable_id of the i-th is i
PObjs == {1, 2, 3}

\* the persistable that Bundle() is given
Roots == {1}

\* what a store may hold in one place
Atoms == {PInt, PTuple} \cup {PObj(i) : i \in PObjs}

\* the stores a persistable may have
Stores ==
    {PStore("one", <<a>>) : a \in Atoms}
    \cup {PStore("list", <<a, b>>) : a, b \in Atoms}
    \cup {PStore("dict", <<a>>) : a \in Atoms}

\* a graph of persistables, shared and cyclic references included, and the
\* persistables that are objects of the live loop
InitBundle ==
    /\ persist = TRUE
    /\ now = 0
    /\ handles = <<>>
    /\ ready = <<>>
    /\ scheduled = <<>>
    /\ stack = <<>>
    /\ stopping = FALSE
    /\ thread_id = 0
    /\ fut = [f \in Futs |-> [state |-> _PENDING, result |-> 0,
                              exception |-> "None", callbacks |-> <<>>]]
    /\ log = <<>>
    /\ handled = {}
    /\ ret = Outcome("init", "ok", 0)
    /\ task = [t \in Tasks |-> NoTask]
    /\ gather = NoGather
    /\ \E s1, s2 \in Stores, a3 \in Atoms, live \in SUBSET PObjs :
          pers = [NoPers EXCEPT
                     !.heap = <<s1, s2, PStore("one", <<a3>>)>>,
                     !.registry = live,
                     !.bundles = [i \in PObjs |-> NoEntry]]

\* persistable.loop() is not None: the persistable is an object of the loop
HasLoop(i) == i \in pers.registry

\* root._bundles of a root Bundle that is being constructed: no sub-bundle,
\* no entry for the loop
EmptyTable ==
    [bundles |-> [i \in PObjs |-> NoEntry], err |-> "None", loop |-> "absent"]

\* Bundle._encode that keeps a value of an unsupported type as it is
RECURSIVE EncodeUnchecked(_, _, _, _)
RECURSIVE EnsureBundleUnchecked(_, _, _)
EncodeUnchecked(g, items, acc, st) ==
    IF items = <<>> THEN [vals |-> acc, st |-> st]
    ELSE LET a == Head(items)
         IN IF a.t = "obj"
            THEN EncodeUnchecked(g, Tail(items), Append(acc, Ref(a.n)),
                                 EnsureBundleUnchecked(g, a.n, st))
            ELSE EncodeUnchecked(g, Tail(items), Append(acc, a), st)

EnsureBundleUnchecked(g, i, st) ==
    IF st.bundles[i].present THEN st
    ELSE LET st1 == [st EXCEPT !.bundles[i].present = TRUE]
             r == EncodeUnchecked(g, g[i].items, <<>>, st1)
         IN [r.st EXCEPT !.bundles[i].t = g[i].t,
                         !.bundles[i].items = r.vals]

\* Bundle._encode over the values of a store, a list or a dict, one after the
\* other: _check_valid_bundle_value raises TypeError for a tuple, a
\* persistable becomes a Reference once its own Bundle is in root._bundles
RECURSIVE Encode(_, _, _, _)
RECURSIVE EnsureBundle(_, _, _)
Encode(g, items, acc, st) ==
    IF items = <<>> \/ st.err # "None" THEN [vals |-> acc, st |-> st]
    ELSE LET a == Head(items)
         IN IF a.t = "tuple"
            THEN [vals |-> acc, st |-> [st EXCEPT !.err = "TypeError"]]
            ELSE IF a.t = "obj"
            THEN Encode(g, Tail(items), Append(acc, Ref(a.n)),
                        EnsureBundle(g, a.n, st))
            ELSE Encode(g, Tail(items), Append(acc, a), st)

\* a root Bundle that enters itself in its side table only after
\* save_instance_state has filled it
RECURSIVE NewBundleLate(_, _, _, _)
NewBundleLate(g, i, st, root) ==
    IF ~root /\ st.bundles[i].present
    THEN [st EXCEPT !.err = "AssertionError"]
    ELSE LET st0 == IF root /\ HasLoop(i) THEN [st EXCEPT !.loop = "None"]
                    ELSE st
             st1 == IF root THEN st0
                    ELSE [st0 EXCEPT !.bundles[i].present = TRUE]
             r == Encode(g, g[i].items, <<>>, st1)
         IN IF r.st.err # "None" THEN r.st
            ELSE [r.st EXCEPT !.bundles[i] =
                     [present |-> TRUE, t |-> g[i].t, items |-> r.vals,
                      lref |-> HasLoop(i), saves |-> @.saves + 1]]

\* Bundle.__init__: _loop_ref is a Reference to persistable.loop() or None;
\* the root maps the reference of its loop to None, any other Bundle asserts
\* that root._bundles has no entry for its id; the Bundle is entered in
\* root._bundles and then save_instance_state fills it. saves is history: the
\* number of calls of save_instance_state of the persistable
RECURSIVE NewBundle(_, _, _, _)
NewBundle(g, i, st, root) ==
    IF ~root /\ st.bundles[i].present
    THEN [st EXCEPT !.err = "AssertionError"]
    ELSE LET st0 == IF root /\ HasLoop(i) THEN [st EXCEPT !.loop = "None"]
                    ELSE st
             st1 == [st0 EXCEPT !.bundles[i].present = TRUE,
                                !.bundles[i].lref = HasLoop(i),
                                !.bundles[i].saves = @ + 1]
             r == Encode(g, g[i].items, <<>>, st1)
         IN IF r.st.err # "None" THEN r.st
            ELSE [r.st EXCEPT !.bundles[i].t = g[i].t,
                              !.bundles[i].items = r.vals]

\* Bundle._ensure_bundle: _get_bundle finds the entry of the Reference in
\* root._bundles, or a Bundle is made of the persistable
EnsureBundle(g, i, st) ==
    IF st.bundles[i].present THEN st
    ELSE NewBundle(g, i, st, FALSE)

\* the side table of a root Bundle that checked no value
BundleTableUnchecked(g, p) ==
    EnsureBundleUnchecked(g, p, EmptyTable)

\* Bundle(persistable) without a root: root._bundles starts empty
BundleTable(g, p) == NewBundle(g, p, EmptyTable, TRUE)

\* Bundle(persistable): the root Bundle with its side table, or the
\* exception that left the constructor
Bundle(p) ==
    /\ UserCtx
    /\ pers.heap # <<>>
    /\ ~pers.made
    /\ LET st == BundleTable(pers.heap, p)
       IN IF st.err # "None"
          THEN /\ ret' = Outcome("Bundle", st.err, p)
               /\ UNCHANGED pers
          ELSE /\ ret' = Outcome("Bundle", "ok", p)
               /\ pers' = [pers EXCEPT !.made = TRUE, !.bundles = st.bundles,
                                        !.loopent = st.loop]
    /\ UNCHANGED <<persist, now, handles, ready, scheduled, stack, stopping,
                   thread_id, fut, log, handled, task, gather>>

\* PicklePersister.deserialise_state: the bundle comes back from a file; the
\* file may lack the sub-bundles of some persistables
DeserialiseState(missing) ==
    /\ UserCtx
    /\ pers.made
    /\ missing # {}
    /\ \A i \in missing : pers.bundles[i].present
    /\ pers' = [pers EXCEPT
                   !.bundles = [i \in PObjs |->
                                  IF i \in missing THEN NoEntry ELSE @[i]]]
    /\ ret' = Outcome("deserialise_state", "ok", 0)
    /\ UNCHANGED <<persist, now, handles, ready, scheduled, stack, stopping,
                   thread_id, fut, log, handled, task, gather>>

\* a get_persistable that shares only the instances that are being loaded
RECURSIVE DecodeNoShare(_, _, _, _, _)
RECURSIVE UnbundlerDoNoShare(_, _, _, _)
GetPersistableNoShare(tbl, j, st, loading) ==
    IF j \in loading THEN [idx |-> st.persistables[j], st |-> st]
    ELSE IF ~tbl[j].present
    THEN [idx |-> 0, st |-> [st EXCEPT !.err = "ValueError"]]
    ELSE UnbundlerDoNoShare(tbl, j, st, loading)

DecodeNoShare(tbl, items, acc, st, loading) ==
    IF items = <<>> \/ st.err # "None" THEN [vals |-> acc, st |-> st]
    ELSE LET a == Head(items)
         IN IF a.t = "ref"
            THEN LET r == GetPersistableNoShare(tbl, a.n, st, loading)
                 IN DecodeNoShare(tbl, Tail(items), Append(acc, Inst(r.idx)),
                                  r.st, loading)
            ELSE DecodeNoShare(tbl, Tail(items), Append(acc, a), st, loading)

UnbundlerDoNoShare(tbl, j, st, loading) ==
    LET k == Len(st.objs) + 1
        st1 == [st EXCEPT !.objs = Append(@, [id |-> j, t |-> "none",
                                              items |-> <<>>]),
                          !.persistables[j] = k]
        r == DecodeNoShare(tbl, tbl[j].items, <<>>, st1, loading \cup {j})
    IN [idx |-> k,
        st |-> IF r.st.err # "None" THEN r.st
               ELSE [r.st EXCEPT !.objs[k].t = tbl[j].t,
                                 !.objs[k].items = r.vals]]

\* Unbundler.get_persistable: the instance in _persistables, else the one a
\* nested Unbundler makes of the sub-bundle; _get_bundle raises ValueError
\* when root._bundles has no entry
RECURSIVE Decode(_, _, _, _)
RECURSIVE UnbundlerDo(_, _, _)

\* a get_persistable that finds an instance only once its
\* load_instance_state has returned and allocates another one before that
get_persistableLoaded(tbl, j, st) ==
    IF st.persistables[j] # 0 /\ st.objs[st.persistables[j]].t # "none"
    THEN [idx |-> st.persistables[j], st |-> st]
    ELSE IF st.persistables[j] # 0
    THEN [idx |-> Len(st.objs) + 1,
          st |-> [st EXCEPT !.objs = Append(@, [id |-> j, t |-> "none",
                                                items |-> <<>>])]]
    ELSE IF ~tbl[j].present
    THEN [idx |-> 0, st |-> [st EXCEPT !.err = "ValueError"]]
    ELSE UnbundlerDo(tbl, j, st)

get_persistable(tbl, j, st) ==
    IF st.persistables[j] # 0 THEN [idx |-> st.persistables[j], st |-> st]
    ELSE IF ~tbl[j].present
    THEN [idx |-> 0, st |-> [st EXCEPT !.err = "ValueError"]]
    ELSE UnbundlerDo(tbl, j, st)

\* Unbundler.decode over the values of a store, a list or a dict
Decode(tbl, items, acc, st) ==
    IF items = <<>> \/ st.err # "None" THEN [vals |-> acc, st |-> st]
    ELSE LET a == Head(items)
         IN IF a.t = "ref"
            THEN LET r == get_persistable(tbl, a.n, st)
                 IN Decode(tbl, Tail(items), Append(acc, Inst(r.idx)), r.st)
            ELSE Decode(tbl, Tail(items), Append(acc, a), st)

\* Unbundler.do: the instance is allocated and entered in _persistables,
\* then load_instance_state asks for saved_state.loop(), which is in
\* _persistables when the root bundle has a loop reference and is looked up
\* with _get_bundle otherwise, and reads PERSISTABLE_ID and STORE
UnbundlerDo(tbl, j, st) ==
    LET k == Len(st.objs) + 1
        st1 == [st EXCEPT !.objs = Append(@, [id |-> j, t |-> "none",
                                              items |-> <<>>]),
                          !.persistables[j] = k]
        r == Decode(tbl, tbl[j].items, <<>>, st1)
    IN [idx |-> k,
        st |-> IF tbl[j].lref /\ ~st.loop
               THEN [st1 EXCEPT !.err = "ValueError"]
               ELSE IF r.st.err # "None" THEN r.st
               ELSE [r.st EXCEPT !.objs[k].t = tbl[j].t,
                                 !.objs[k].items = r.vals]]

\* the root Unbundler without the sharing of loaded instances
UnbundleNoShare(tbl, p) ==
    UnbundlerDoNoShare(tbl, p, [persistables |-> [i \in PObjs |-> 0],
                                objs |-> <<>>, err |-> "None",
                                loop |-> tbl[p].lref], {})

\* Unbundler(bundle, loop).do() for the root bundle: _persistables holds
\* the loop when the bundle has a loop reference
UnbundleOf(tbl, p) ==
    UnbundlerDo(tbl, p, [persistables |-> [i \in PObjs |-> 0],
                         objs |-> <<>>, err |-> "None",
                         loop |-> tbl[p].lref])

\* Bundle.unbundle(loop): the instances made, or the exception raised
Unbundle(p) ==
    /\ UserCtx
    /\ pers.made
    /\ pers.bundles[p].present
    /\ LET r == UnbundleOf(pers.bundles, p)
       IN IF r.st.err # "None"
          THEN /\ ret' = Outcome("unbundle", r.st.err, p)
               /\ pers' = [pers EXCEPT !.objs = <<>>]
          ELSE /\ ret' = Outcome("unbundle", "ok", r.idx)
               /\ pers' = [pers EXCEPT !.objs = r.st.objs]
    /\ UNCHANGED <<persist, now, handles, ready, scheduled, stack, stopping,
                   thread_id, fut, log, handled, task, gather>>

\* a graph is bundled, possibly stored and read back, and unbundled
NextBundle ==
    \/ \E p \in Roots : Bundle(p)
    \/ \E missing \in SUBSET (PObjs \ Roots) : DeserialiseState(missing)
    \/ \E p \in Roots : Unbundle(p)

SpecBundle == InitBundle /\ [][NextBundle]_vars

\* ------------------------------------------------------- bundled handles
\* a persistable loop with nothing on it
InitHandle ==
    /\ Init
    /\ persist

\* the handle is not the callback a tick is in the middle of
Finished(h) == \A i \in Ids(stack) : stack[i].cur # h

\* _PersistableHandleMixin.save_instance_state and Handle.save_instance_state:
\* FN, ARGS, CANCELLED and WHEN_READY as they are now. of and ran are
\* history: the handle saved, and whether its _run had been entered and left
SavedHandle(h) ==
    [of |-> h, fn |-> handles[h].fn, arg |-> handles[h].arg,
     cancelled |-> handles[h].cancelled,
     when_ready |-> handles[h].when_ready,
     ran |-> InLog(h) /\ Finished(h)]

\* Bundle(handle) for a Handle made by call_soon
BundleHandle(h) ==
    /\ UserCtx
    /\ persist
    /\ ~handles[h].timer
    /\ Len(pers.saved) < MaxBundles
    /\ pers' = [pers EXCEPT !.saved = Append(@, SavedHandle(h))]
    /\ ret' = Outcome("Bundle", "ok", Len(pers.saved) + 1)
    /\ UNCHANGED <<persist, now, handles, ready, scheduled, stack, stopping,
                   thread_id, fut, log, handled, task, gather>>

\* a load_instance_state that leaves the registration to its caller
LoadHandleUnregistered(hs, rd, s) ==
    [hs |-> Append(hs, [NewHandle(s.fn, s.arg, FALSE, 0) EXCEPT
                           !.cancelled = s.cancelled,
                           !.when_ready = s.when_ready]),
     rd |-> rd]

\* Handle.load_instance_state on the instance Unbundler.do allocated: the
\* four saved fields, then _insert_callback unless the handle had run
LoadHandle(hs, rd, s) ==
    LET k == Len(hs) + 1
        hs2 == Append(hs, [NewHandle(s.fn, s.arg, FALSE, 0) EXCEPT
                              !.cancelled = s.cancelled,
                              !.when_ready = s.when_ready])
    IN IF s.when_ready # RAN
       THEN InsertReady(hs2, rd, k)
       ELSE [hs |-> hs2, rd |-> rd]

\* bundle.unbundle(loop) for the bundle of a Handle, into the loop the
\* handle was made on. copies is history: the handle made, the bundle it
\* was made of and the number of ticks that were active
UnbundleHandle(b) ==
    /\ UserCtx
    /\ Len(handles) < HandleCap
    /\ LET r == LoadHandle(handles, ready, pers.saved[b])
       IN handles' = r.hs /\ ready' = r.rd
    /\ pers' = [pers EXCEPT !.copies =
                   Append(@, [h |-> Len(handles) + 1, b |-> b,
                              depth |-> Len(stack)])]
    /\ ret' = Outcome("unbundle", "ok", Len(handles) + 1)
    /\ UNCHANGED <<persist, now, scheduled, stack, stopping, thread_id, fut,
                   log, handled, task, gather>>

\* handles are made, cancelled, run, bundled and unbundled
NextHandle ==
    \/ \E fn \in LoopFns : CallSoon(fn)
    \/ \E h \in Ids(handles) : HandleCancel(h)
    \/ TopTick
    \/ TickReturn
    \/ RunNext
    \/ CallbackReturn
    \/ \E kind \in ExcKinds : CallbackRaise(kind)
    \/ \E h \in Ids(handles) : BundleHandle(h)
    \/ \E b \in Ids(pers.saved) : UnbundleHandle(b)

SpecHandle == InitHandle /\ [][NextHandle]_vars

\* --------------------------------------------------------- bundled tasks
\* the state of a loop: what its handles, ready list, timers, futures and
\* objects are, and what it has invoked
LoopState(hs, rd, sch, ft, lg, hd, tk) ==
    [handles |-> hs, ready |-> rd, scheduled |-> sch, fut |-> ft,
     log |-> lg, handled |-> hd, task |-> tk]

\* loop2 = persistable.BaseEventLoop()
NewLoop ==
    LoopState(<<>>, <<>>, <<>>,
              [f \in Futs |-> [state |-> _PENDING, result |-> 0,
                               exception |-> "None", callbacks |-> <<>>]],
              <<>>, {}, [t \in Tasks |-> NoTask])

\* the loop user code is working with
ThisLoop == LoopState(handles, ready, scheduled, fut, log, handled, task)

\* the loop with number l: the one user code works with or the other one
LoopOf(l) == IF l = pers.cur THEN ThisLoop ELSE pers.other

\* a persistable loop with nothing on it and a second one beside it; owned
\* tells whether a handle of a bound method of a persistable counts as owned
\* by that persistable (_CallbackLoop._get_owner)
InitTaskBundle ==
    /\ persist = TRUE
    /\ now = 0
    /\ handles = <<>>
    /\ ready = <<>>
    /\ scheduled = <<>>
    /\ stack = <<>>
    /\ stopping = FALSE
    /\ thread_id = 0
    /\ fut = NewLoop.fut
    /\ log = <<>>
    /\ handled = {}
    /\ ret = Outcome("init", "ok", 0)
    /\ task = [t \in Tasks |-> NoTask]
    /\ gather = NoGather
    /\ \E o \in BOOLEAN : pers = [NoPers EXCEPT !.two = TRUE, !.other = NewLoop,
                                           !.owned = o]

\* user code turns to the other loop once the one it leaves has nothing ready
SwitchLoop ==
    /\ pers.two
    /\ stack = <<>>
    /\ ready = <<>>
    /\ handles' = pers.other.handles
    /\ ready' = pers.other.ready
    /\ scheduled' = pers.other.scheduled
    /\ fut' = pers.other.fut
    /\ log' = pers.other.log
    /\ handled' = pers.other.handled
    /\ task' = pers.other.task
    /\ pers' = [pers EXCEPT !.other = ThisLoop, !.cur = 3 - @]
    /\ UNCHANGED <<persist, now, stack, stopping, thread_id, ret, gather>>

\* BaseEventLoop._get_owning_callback_handles(task): the handles on the ready
\* list whose callable is a bound method of the task
OwningCallbackHandles ==
    IF pers.owned
    THEN SelectSeq(ready,
                   LAMBDA h : handles[h].fn \in {"_step", "_await_done"})
    ELSE <<>>

\* Task.save_instance_state and what it calls through super: the awaitable's
\* state and callbacks, NEXT_STEP, AWAITING, AWAITING_RESULT in tk;
\* SCHEDULED_CALLBACKS in sc, CALLBACK_HANDLE in ch, the bundle of the
\* awaited future (it is the AWAITING value and the argument of a saved
\* _await_done handle) in aw
SavedTask(t) ==
    LET own == OwningCallbackHandles
    IN [tk |-> task[t],
        sc |-> [i \in Ids(own) |-> SavedHandle(own[i])],
        ch |-> IF task[t].callback_handle # 0
               THEN <<SavedHandle(task[t].callback_handle)>> ELSE <<>>,
        aw |-> IF \/ task[t].awaiting # 0
                  \/ \E i \in Ids(own) : handles[own[i]].fn = "_await_done"
               THEN <<fut[1]>> ELSE <<>>]

\* Bundle(task), called between ticks
BundleTask(t) ==
    /\ stack = <<>>
    /\ task[t].type # "None"
    /\ Len(pers.tb) < MaxBundles
    /\ pers' = [pers EXCEPT !.tb = Append(@, SavedTask(t))]
    /\ ret' = Outcome("Bundle", "ok", Len(pers.tb) + 1)
    /\ UNCHANGED <<persist, now, handles, ready, scheduled, stack, stopping,
                   thread_id, fut, log, handled, task, gather>>

\* decoding SCHEDULED_CALLBACKS: every handle of the list is loaded
RECURSIVE LoadAll(_, _, _)
LoadAll(hs, rd, sc) ==
    IF sc = <<>> THEN [hs |-> hs, rd |-> rd]
    ELSE LET r == LoadHandle(hs, rd, Head(sc))
         IN LoadAll(r.hs, r.rd, Tail(sc))

\* LoopPersistable.load_instance_state: loop._insert_callback(cb) for the
\* handles first .. last of SCHEDULED_CALLBACKS
RECURSIVE InsertCallbacks(_, _, _, _)
InsertCallbacks(hs, rd, first, last) ==
    IF first > last THEN [hs |-> hs, rd |-> rd]
    ELSE LET r == InsertReady(hs, rd, first)
         IN InsertCallbacks(r.hs, r.rd, first + 1, last)

\* the place of a saved CALLBACK_HANDLE in SCHEDULED_CALLBACKS, 0 if it is
\* not there
PlaceIn(sc, ch) ==
    IF ch = <<>> THEN 0
    ELSE IF \E i \in Ids(sc) : sc[i].of = ch[1].of
    THEN CHOOSE i \in Ids(sc) : sc[i].of = ch[1].of
    ELSE 0

\* a load_instance_state that restores the fields and registers no handle
LoadTaskUnregistered(S, b) ==
    [S EXCEPT
       !.task = [@ EXCEPT ![1] =
                   [b.tk EXCEPT !.in_loop = TRUE, !.registered = TRUE,
                                !.paused = FALSE, !.callback_handle = 0,
                                !.calls = <<>>, !.ticks = 0]],
       !.fut = IF b.aw = <<>> THEN @ ELSE [@ EXCEPT ![1] = b.aw[1]]]

\* Task.load_instance_state on the instance Unbundler.do allocated, in the
\* loop with state S: the owned handles are loaded and inserted, the object
\* is registered, the awaitable's state, the awaited future and the pending
\* step handle are restored; _paused is False
LoadTask(S, b) ==
    LET base == Len(S.handles)
        r1 == LoadAll(S.handles, S.ready, b.sc)
        r2 == InsertCallbacks(r1.hs, r1.rd, base + 1, base + Len(b.sc))
        at == PlaceIn(b.sc, b.ch)
        r3 == IF b.ch = <<>> \/ at # 0 THEN r2
              ELSE LoadHandle(r2.hs, r2.rd, b.ch[1])
        ch == IF b.ch = <<>> THEN 0
              ELSE IF at # 0 THEN base + at ELSE Len(r3.hs)
    IN [S EXCEPT
          !.handles = r3.hs,
          !.ready = r3.rd,
          !.task = [@ EXCEPT ![1] =
                      [b.tk EXCEPT !.in_loop = TRUE, !.registered = TRUE,
                                   !.paused = FALSE, !.callback_handle = ch,
                                   !.calls = <<>>, !.ticks = 0]],
          !.fut = IF b.aw = <<>> THEN @ ELSE [@ EXCEPT ![1] = b.aw[1]]]

\* the loop has no object with the uuid of the bundled task and nothing
\* left of one: none was made, or it finished and _remove has run
Vacant(S) ==
    \/ S.task[1].type = "None"
    \/ /\ S.task[1].state # _PENDING
       /\ ~S.task[1].registered
       /\ S.ready = <<>>

\* bundle.unbundle(loop) for the bundle of a task, between ticks, into the
\* loop user code works with or into the other one. copy and n are
\* history: the loops whose task was made by unbundle, the unbundle calls
UnbundleTask(l, b) ==
    /\ pers.two
    /\ stack = <<>>
    /\ pers.n < MaxUnbundles
    /\ Vacant(LoopOf(l))
    /\ LET S == LoadTask(LoopOf(l), pers.tb[b])
       IN IF l = pers.cur
          THEN /\ handles' = S.handles
               /\ ready' = S.ready
               /\ task' = S.task
               /\ fut' = S.fut
               /\ pers' = [pers EXCEPT !.n = @ + 1, !.copy = @ \cup {l}]
          ELSE /\ pers' = [pers EXCEPT !.n = @ + 1, !.copy = @ \cup {l},
                                       !.other = S]
               /\ UNCHANGED <<handles, ready, task, fut>>
    /\ ret' = Outcome("unbundle", "ok", l)
    /\ UNCHANGED <<persist, now, scheduled, stack, stopping, thread_id, log,
                   handled, gather>>

\* a task is made on the first loop, its awaited child resolves to 5, the
\* loops are ticked, the task is bundled and the bundle unbundled
NextTaskBundle ==
    \/ \E type \in {"EventuallyFive", "AwaitFive"} :
          pers.cur = 1 /\ pers.copy = {} /\ TaskCreate(1, type)
    \/ SetResult(1, 5)
    \/ TopTick
    \/ TickReturn
    \/ RunNext
    \/ Step
    \/ AwaitDone
    \/ Insert
    \/ Remove
    \/ SwitchLoop
    \/ BundleTask(1)
    \/ \E l \in {1, 2}, b \in Ids(pers.tb) : UnbundleTask(l, b)

SpecTaskBundle == InitTaskBundle /\ [][NextTaskBundle]_vars

\* ---------------------------------------------------------------- gather
\* the children gather() may be given
GatherArgs == {<<1>>, <<1, 2>>, <<2, 1>>, <<1, 1>>}

\* two futures that gather() can be given and the place of the future it
\* returns, which nothing refers to before gather() is called
InitGather ==
    /\ persist \in BOOLEAN
    /\ now = 0
    /\ handles = <<>>
    /\ ready = <<>>
    /\ scheduled = <<>>
    /\ stack = <<>>
    /\ stopping = FALSE
    /\ thread_id = 0
    /\ fut = [f \in GFuts |->
                [state |-> _PENDING,
                 result |-> IF f = GatherFut THEN <<>> ELSE 0,
                 exception |-> "None", callbacks |-> <<>>]]
    /\ log = <<>>
    /\ handled = {}
    /\ ret = Outcome("init", "ok", 0)
    /\ task = [t \in Tasks |-> NoTask]
    /\ gather = NoGather
    /\ pers = NoPers

\* "for child in self._children: child.add_done_callback(self._child_done)"
RECURSIVE AddChildDone(_, _, _, _)
AddChildDone(hs, rd, ft, children) ==
    IF children = <<>> THEN [hs |-> hs, rd |-> rd, ft |-> ft]
    ELSE LET c == Head(children)
         IN IF ft[c].state # _PENDING
            THEN LET r == CallSoonOn(hs, rd, "_child_done", c)
                 IN AddChildDone(r.hs, r.rd, ft, Tail(children))
            ELSE AddChildDone(hs, rd,
                              [ft EXCEPT ![c].callbacks =
                                            Append(@, "_child_done")],
                              Tail(children))

\* gather(awaitables, loop) -> _GatheringFuture(children, loop)
Gather(children) ==
    /\ UserCtx
    /\ GatherFut \in DOMAIN fut
    /\ gather = NoGather
    /\ Len(handles) + Len(children) <= HandleCap
    /\ LET r == AddChildDone(handles, ready, fut, children)
       IN /\ handles' = r.hs
          /\ ready' = r.rd
          /\ fut' = r.ft
    /\ gather' = [children |-> children, n_done |-> 0, cancel_true |-> FALSE]
    /\ ret' = Outcome("gather", "ok", GatherFut)
    /\ UNCHANGED <<task, pers, persist, now, scheduled, stack, stopping, thread_id,
                   log, handled>>

\* the tuple of results with the children taken from the last to the first
AllDoneReversed(ft, children) ==
    [i \in Ids(children) |-> ft[children[Len(children) + 1 - i]].result]

\* _all_done: tuple(child.result() for child in self._children)
AllDone(ft, children) == [i \in Ids(children) |-> ft[children[i]].result]

\* the future gather() returned becomes done: Future.set_result or
\* Future.set_exception, with its _schedule_callbacks
GatherSet(result, exception) ==
    LET r == CallSoonAll(handles, ready, fut[GatherFut].callbacks, GatherFut)
    IN /\ fut' = [fut EXCEPT ![GatherFut].state = _FINISHED,
                             ![GatherFut].result = result,
                             ![GatherFut].exception = exception,
                             ![GatherFut].callbacks = <<>>]
       /\ handles' = MarkRanIn(r.hs, Top.cur)
       /\ ready' = r.rd

\* a _child_done that goes on when the gather future is done already
ChildDoneUnguarded ==
    /\ Running("_child_done")
    /\ LET f == handles[Top.cur].arg
           all == gather.n_done + 1 = Len(gather.children)
           raised == fut[f].state # _FINISHED \/ fut[f].exception # "None"
                     \/ all
       IN IF done(GatherFut) /\ raised
          THEN /\ Returned(Top.cur, "InvalidStateError")
               /\ handles' = MarkRanIn(handles, Top.cur)
               /\ UNCHANGED <<fut, ready, gather>>
          ELSE /\ Returned(Top.cur, "None")
               /\ IF fut[f].state = _CANCELLED
                  THEN GatherSet(fut[GatherFut].result, "CancelledError")
                       /\ UNCHANGED gather
                  ELSE IF fut[f].exception # "None"
                  THEN GatherSet(fut[GatherFut].result, fut[f].exception)
                       /\ UNCHANGED gather
                  ELSE /\ gather' = [gather EXCEPT !.n_done = @ + 1]
                       /\ IF all
                          THEN GatherSet(AllDone(fut, gather.children), "None")
                          ELSE /\ handles' = MarkRanIn(handles, Top.cur)
                               /\ UNCHANGED <<fut, ready>>
    /\ UNCHANGED <<task, pers, persist, now, scheduled, stopping, thread_id, log,
                   ret>>

\* _GatheringFutureTemplate._child_done(future), run by a tick
ChildDone ==
    /\ Running("_child_done")
    /\ Returned(Top.cur, "None")
    /\ LET f == handles[Top.cur].arg
       IN IF done(GatherFut)
          THEN /\ handles' = MarkRanIn(handles, Top.cur)
               /\ UNCHANGED <<fut, ready, gather>>
          ELSE IF fut[f].state = _CANCELLED
          THEN /\ GatherSet(fut[GatherFut].result, "CancelledError")
               /\ UNCHANGED gather
          ELSE IF fut[f].exception # "None"
          THEN /\ GatherSet(fut[GatherFut].result, fut[f].exception)
               /\ UNCHANGED gather
          ELSE /\ gather' = [gather EXCEPT !.n_done = @ + 1]
               /\ IF gather.n_done + 1 = Len(gather.children)
                  THEN GatherSet(AllDone(fut, gather.children), "None")
                  ELSE /\ handles' = MarkRanIn(handles, Top.cur)
                       /\ UNCHANGED <<fut, ready>>
    /\ UNCHANGED <<task, pers, persist, now, scheduled, stopping, thread_id, log,
                   ret>>

\* a cancel loop that stops at the first child it cancelled
RECURSIVE CancelChildrenFirst(_, _, _, _, _)
CancelChildrenFirst(hs, rd, ft, children, any) ==
    IF children = <<>> \/ any
    THEN [hs |-> hs, rd |-> rd, ft |-> ft, ret |-> any]
    ELSE LET c == Head(children)
         IN IF ft[c].state # _PENDING
            THEN CancelChildrenFirst(hs, rd, ft, Tail(children), any)
            ELSE LET r == CallSoonAll(hs, rd, ft[c].callbacks, c)
                 IN CancelChildrenFirst(r.hs, r.rd,
                        [ft EXCEPT ![c].state = _CANCELLED,
                                   ![c].callbacks = <<>>],
                        Tail(children), TRUE)

\* "for child in self._children: if child.cancel(): ret = True", each
\* child.cancel() being Future.cancel
RECURSIVE CancelChildren(_, _, _, _, _)
CancelChildren(hs, rd, ft, children, any) ==
    IF children = <<>>
    THEN [hs |-> hs, rd |-> rd, ft |-> ft, ret |-> any]
    ELSE LET c == Head(children)
         IN IF ft[c].state # _PENDING
            THEN CancelChildren(hs, rd, ft, Tail(children), any)
            ELSE LET r == CallSoonAll(hs, rd, ft[c].callbacks, c)
                 IN CancelChildren(r.hs, r.rd,
                        [ft EXCEPT ![c].state = _CANCELLED,
                                   ![c].callbacks = <<>>],
                        Tail(children), TRUE)

\* _GatheringFutureTemplate.cancel(); cancel_true remembers that a call
\* returned True
GatherCancel ==
    /\ UserCtx
    /\ GatherFut \in DOMAIN fut
    /\ gather # NoGather
    /\ IF done(GatherFut)
       THEN /\ ret' = Outcome("gather.cancel", "False", GatherFut)
            /\ UNCHANGED <<fut, handles, ready, gather>>
       ELSE LET r == CancelChildren(handles, ready, fut, gather.children,
                                    FALSE)
            IN /\ fut' = r.ft
               /\ handles' = r.hs
               /\ ready' = r.rd
               /\ ret' = Outcome("gather.cancel",
                                 IF r.ret THEN "True" ELSE "False", GatherFut)
               /\ gather' = [gather EXCEPT !.cancel_true = @ \/ r.ret]
    /\ UNCHANGED <<task, pers, persist, now, scheduled, stack, stopping, thread_id,
                   log, handled>>

\* children completing in any order around gather(), ticks run one after the
\* other, and gather.cancel()
NextGather ==
    \/ \E children \in GatherArgs : Gather(children)
    \/ \E f \in GFuts \ {GatherFut}, v \in Values : SetResult(f, v)
    \/ \E f \in GFuts \ {GatherFut}, e \in Exceptions : SetException(f, e)
    \/ \E f \in GFuts \ {GatherFut} : Cancel(f)
    \/ GatherCancel
    \/ Result(GatherFut)
    \/ TopTick
    \/ TickReturn
    \/ RunNext
    \/ ChildDone

SpecGather == InitGather /\ [][NextGather]_vars

\* ---------------------------------------------------- run_until_complete
\* the end of run_until_complete without "if not awaitable.done(): raise"
UntilOutcomeUnchecked(f) == [ResultOf(f) EXCEPT !.op = "run_until_complete"]

\* the end of run_until_complete: RuntimeError if the awaitable is not done,
\* else awaitable.result()
UntilOutcome(f) ==
    IF ~done(f) THEN Outcome("run_until_complete", "RuntimeError", f)
    ELSE [ResultOf(f) EXCEPT !.op = "run_until_complete"]

\* BaseEventLoop.run_until_complete up to the first test of run_forever's
\* while loop, or the whole call when the awaitable is done already
RunUntilComplete(f) ==
    /\ UserCtx
    /\ Len(stack) < MaxDepth
    /\ IF done(f)
       THEN /\ fut' = [fut EXCEPT ![f].callbacks =
                          Filtered(@, "_run_until_complete_cb")]
            /\ ret' = UntilOutcome(f)
            /\ UNCHANGED stack
       ELSE /\ Len(fut[f].callbacks) < MaxCallbacks
            /\ fut' = [fut EXCEPT ![f].callbacks =
                          Append(@, "_run_until_complete_cb")]
            /\ IF is_running
               THEN /\ ret' = Outcome("run_until_complete", "AlreadyRunning", f)
                    /\ UNCHANGED stack
               ELSE /\ stack' = Append(stack, [kind |-> "until", todo |-> 0,
                                               cur |-> 0, aw |-> f])
                    /\ UNCHANGED ret
    /\ UNCHANGED <<task, gather, pers, persist, now, handles, ready, scheduled,
                   stopping, thread_id, log, handled>>

\* run_until_complete: the while loop of its run_forever and, once the loop
\* is stopped, the rest of run_until_complete
UntilCheck ==
    /\ stack # <<>>
    /\ Top.kind = "until" /\ Top.cur = 0 /\ Top.todo = 0
    /\ IF stopping
       THEN /\ stopping' = FALSE
            /\ stack' = SubSeq(stack, 1, Len(stack) - 1)
            /\ fut' = [fut EXCEPT ![Top.aw].callbacks =
                          Filtered(@, "_run_until_complete_cb")]
            /\ ret' = UntilOutcome(Top.aw)
            /\ UNCHANGED <<handles, ready, scheduled>>
       ELSE /\ BeginTick("again")
            /\ UNCHANGED <<stopping, ret, fut>>
    /\ UNCHANGED <<task, gather, pers, persist, now, thread_id, log, handled>>

\* BaseEventLoop._run_until_complete_cb, run by a tick: self.stop()
RunUntilCompleteCb ==
    /\ stack # <<>>
    /\ Top.cur # 0
    /\ handles[Top.cur].fn = "_run_until_complete_cb"
    /\ stopping' = TRUE
    /\ handles' = MarkRan(Top.cur)
    /\ stack' = SetTop("cur", 0)
    /\ UNCHANGED <<task, gather, pers, persist, now, ready, scheduled, thread_id,
                   fut, log, handled, ret>>

\* ------------------------------------------------------------------ Next
\* the scheduler driven by user code and by its own callbacks: ready
\* handles, timers, the clock, cancellation and (nested) ticks
NextLoop ==
    \/ \E fn \in LoopFns : CallSoon(fn)
    \/ \E when \in 0..MaxTime, fn \in LoopFns : CallAt(when, fn)
    \/ \E h \in Ids(handles) : HandleCancel(h)
    \/ AdvanceClock
    \/ Tick
    \/ TickReturn
    \/ RunNext
    \/ CallbackReturn

SpecLoop == Init /\ [][NextLoop]_vars

\* ticks whose callbacks may raise
NextRaise ==
    \/ \E fn \in LoopFns : CallSoon(fn)
    \/ \E h \in Ids(handles) : HandleCancel(h)
    \/ Tick
    \/ TickReturn
    \/ RunNext
    \/ CallbackReturn
    \/ \E kind \in ExcKinds : CallbackRaise(kind)

SpecRaise == Init /\ [][NextRaise]_vars

\* a future, its done callbacks and the ticks that run them
NextFuture ==
    \/ \E f \in Futs, v \in Values : SetResult(f, v)
    \/ \E f \in Futs, e \in Exceptions : SetException(f, e)
    \/ \E f \in Futs : Cancel(f)
    \/ \E f \in Futs : Result(f)
    \/ \E f \in Futs, fn \in Fns : AddDoneCallback(f, fn)
    \/ \E f \in Futs, fn \in Fns : RemoveDoneCallback(f, fn)
    \/ Tick
    \/ TickReturn
    \/ RunNext
    \/ CallbackReturn

SpecFuture == Init /\ [][NextFuture]_vars

\* tick(), run_forever() and stop() called from user code and from callbacks
NextRun ==
    \/ \E fn \in LoopFns : CallSoon(fn)
    \/ Stop
    \/ Tick
    \/ RunForever
    \/ LoopCheck
    \/ TickReturn
    \/ RunNext
    \/ CallbackReturn

SpecRun == Init /\ [][NextRun]_vars

\* run_until_complete on a future that user code completes, with stop()
NextUntil ==
    \/ \E f \in Futs, v \in Values : SetResult(f, v)
    \/ \E f \in Futs, e \in Exceptions : SetException(f, e)
    \/ \E f \in Futs : Cancel(f)
    \/ \E fn \in LoopFns : CallSoon(fn)
    \/ Stop
    \/ \E f \in Futs : RunUntilComplete(f)
    \/ UntilCheck
    \/ RunUntilCompleteCb
    \/ Tick
    \/ TickReturn
    \/ RunNext
    \/ CallbackReturn
    \/ \E kind \in ExcKinds : CallbackRaise(kind)

SpecUntil == Init /\ [][NextUntil]_vars

\* user code hands the loop one callable of its own
OneCallback(fn) ==
    /\ \A h \in Ids(handles) : handles[h].fn \notin LoopFns
    /\ CallSoon(fn)

\* a task created on the loop, the future it may await, a callable of the
\* user, and ticks that user code runs one after the other
NextTask ==
    \/ \E t \in Tasks, type \in TaskTypes : TaskCreate(t, type)
    \/ \E f \in Futs, v \in Values : SetResult(f, v)
    \/ \E f \in Futs, e \in Exceptions : SetException(f, e)
    \/ \E f \in Futs : Cancel(f)
    \/ \E fn \in LoopFns : OneCallback(fn)
    \/ TopTick
    \/ TickReturn
    \/ RunNext
    \/ CallbackReturn
    \/ Step
    \/ AwaitDone
    \/ Insert
    \/ Remove

SpecTask == Init /\ [][NextTask]_vars

\* a task that user code may cancel
NextTaskCancel ==
    \/ \E t \in Tasks, type \in {"Raises", "AwaitFive"} : TaskCreate(t, type)
    \/ \E f \in Futs, v \in Values : SetResult(f, v)
    \/ \E fn \in LoopFns : OneCallback(fn)
    \/ TopTick
    \/ TickReturn
    \/ RunNext
    \/ CallbackReturn
    \/ Step
    \/ AwaitDone
    \/ Insert
    \/ Remove
    \/ \E t \in Tasks : TaskCancel(t)

SpecTaskCancel == Init /\ [][NextTaskCancel]_vars

\* a task that user code may pause and play
NextTaskPause ==
    \/ \E t \in Tasks, type \in {"EventuallyFive", "AwaitFive"} :
          TaskCreate(t, type)
    \/ \E f \in Futs, v \in Values : SetResult(f, v)
    \/ \E fn \in LoopFns : OneCallback(fn)
    \/ TopTick
    \/ TickReturn
    \/ RunNext
    \/ CallbackReturn
    \/ Step
    \/ AwaitDone
    \/ Insert
    \/ Remove
    \/ \E t \in Tasks : TaskPause(t)
    \/ \E t \in Tasks : TaskPlay(t)

SpecTaskPause == Init /\ [][NextTaskPause]_vars

\* pause(), play() and cancel() of a task against its steps and the
\* completion of the future it awaits
NextTaskAll ==
    \/ \E t \in Tasks, type \in {"EventuallyFive", "AwaitFive"} :
          TaskCreate(t, type)
    \/ \E f \in Futs, v \in Values : SetResult(f, v)
    \/ \E f \in Futs : Cancel(f)
    \/ TopTick
    \/ TickReturn
    \/ RunNext
    \/ Step
    \/ AwaitDone
    \/ Insert
    \/ Remove
    \/ \E t \in Tasks : TaskPause(t)
    \/ \E t \in Tasks : TaskPlay(t)
    \/ \E t \in Tasks : TaskCancel(t)

SpecTaskAll == Init /\ [][NextTaskAll]_vars

Next ==
    \/ NextUntil
    \/ NextTask
    \/ NextTaskCancel
    \/ NextTaskPause
    \/ NextTaskAll
    \/ NextGather
    \/ NextBundle
    \/ NextHandle
    \/ NextTaskBundle
    \/ NextLoop
    \/ NextRaise
    \/ NextFuture
    \/ NextRun
    \/ \E fn \in LoopFns : CallLater(1, fn)

Spec == Init /\ [][Next]_vars

\* ================================================================ claims
\* position of handle h in a list of handles (0 when absent)
IndexIn(s, h) == IF \E i \in Ids(s) : s[i] = h
                 THEN CHOOSE i \in Ids(s) : s[i] = h ELSE 0

\* number of times x occurs in the sequence s
Count(s, x) == Cardinality({i \in Ids(s) : s[i] = x})

\* the future f leaves Pending in this step
Completes(f) == fut[f].state = _PENDING /\ fut'[f].state # _PENDING

\* C1: once a future has left Pending, its state, result and exception never
\* change again; every later set_result and set_exception raises
\* InvalidStateError and every later cancel() returns False.
C1_SingleAssignment ==
    [][\A f \in Futs : done(f) =>
          /\ fut'[f].state = fut[f].state
          /\ fut'[f].result = fut[f].result
          /\ fut'[f].exception = fut[f].exception
          /\ \A v \in Values :
                SetResult(f, v) =>
                    ret' = Outcome("set_result", "InvalidStateError", f)
          /\ \A e \in Exceptions :
                SetException(f, e) =>
                    ret' = Outcome("set_exception", "InvalidStateError", f)
          /\ Cancel(f) => ret' = Outcome("cancel", "False", f)]_vars

\* a finished future on which a second set_result was just refused
C1_Witness ==
    /\ fut[1].state = _FINISHED
    /\ fut[1].result = 5
    /\ ret = Outcome("set_result", "InvalidStateError", 1)

\* C2: add_done_callback invokes nothing itself: on a done future it creates
\* one ready handle for fn(future), on a pending future it appends fn to the
\* list; callables are invoked by a tick only, and a done callback is never
\* invoked while its future is pending.
C2_NeverSynchronous ==
    /\ [][/\ \A f \in Futs, fn \in Fns :
                AddDoneCallback(f, fn) =>
                    /\ log' = log
                    /\ done(f) =>
                          /\ Len(handles') = Len(handles) + 1
                          /\ handles'[Len(handles')].fn = fn
                          /\ handles'[Len(handles')].arg = f
                          /\ Count(ready', Len(handles')) = 1
                          /\ fut' = fut
                    /\ ~done(f) =>
                          /\ fut'[f].callbacks = Append(fut[f].callbacks, fn)
                          /\ handles' = handles
                          /\ ready' = ready
          /\ log' # log => stack # <<>>]_vars
    /\ [](\A i \in Ids(log) :
             handles[log[i]].arg \in Futs => done(handles[log[i]].arg))

\* a callback was just added to a future that was already done: its handle
\* waits in the ready list and has not been invoked
C2_Witness ==
    /\ ret = Outcome("add_done_callback", "None", 1)
    /\ done(1)
    /\ handles # <<>>
    /\ handles[Len(handles)].arg = 1
    /\ IndexIn(ready, Len(handles)) # 0
    /\ ~InLog(Len(handles))

\* C3: the step that takes a future out of Pending creates one ready handle
\* per registered callback, in registration order, and empties the list; no
\* handle is ever queued twice or invoked twice.
C3_FlushedOnce ==
    /\ [][\A f \in Futs : Completes(f) =>
            LET cbs == fut[f].callbacks
                n == Len(handles)
            IN /\ Len(handles') = n + Len(cbs)
               /\ Len(ready') = Len(ready) + Len(cbs)
               /\ \A i \in Ids(cbs) :
                     /\ handles'[n + i].fn = cbs[i]
                     /\ handles'[n + i].arg = f
                     /\ Count(ready', n + i) = 1
               /\ \A i, j \in Ids(cbs) :
                     i < j => IndexIn(ready', n + i) < IndexIn(ready', n + j)
               /\ fut'[f].callbacks = <<>>]_vars
    /\ [](/\ \A f \in Futs : done(f) => fut[f].callbacks = <<>>
          /\ \A h \in Ids(handles) :
                Count(log, h) + Count(ready, h) <= 1)

\* both callbacks of a future registered as a then b were invoked, a first
C3_Witness ==
    /\ done(1)
    /\ Len(log) = 2
    /\ handles[log[1]].fn = "a" /\ handles[log[1]].arg = 1
    /\ handles[log[2]].fn = "b" /\ handles[log[2]].arg = 1
    /\ log[1] = 1 /\ log[2] = 2

\* C4: result() raises CancelledError on a cancelled future,
\* InvalidStateError on a pending one, the stored exception if one was set,
\* and otherwise returns the value set_result stored; it changes nothing.
C4_Result ==
    [][\A f \in Futs :
          /\ Result(f) =>
                /\ fut' = fut
                /\ handles' = handles /\ ready' = ready
                /\ ret'.op = "result"
                /\ fut[f].state = _CANCELLED => ret'.out = "CancelledError"
                /\ fut[f].state = _PENDING => ret'.out = "InvalidStateError"
                /\ (fut[f].state = _FINISHED /\ fut[f].exception # "None")
                      => ret'.out = fut[f].exception
                /\ (fut[f].state = _FINISHED /\ fut[f].exception = "None")
                      => (ret'.out = "ok" /\ ret'.val = fut[f].result)
          /\ \A v \in Values :
                (SetResult(f, v) /\ ~done(f)) => fut'[f].result = v]_vars

\* result() just returned the value 6 of a finished future
C4_Witness ==
    /\ fut[1].state = _FINISHED
    /\ fut[1].result = 6
    /\ ret = Outcome("result", "ok", 6)

\* C5: remove_done_callback(fn) on a pending future leaves the other
\* callbacks in their order, removes every fn, returns how many it removed;
\* when the future completes no handle is created for a callable that is not
\* in the list.
C5_RemoveAll ==
    [][\A f \in Futs :
          /\ \A fn \in Fns :
                (RemoveDoneCallback(f, fn) /\ ~done(f)) =>
                    /\ fut'[f].callbacks =
                          SelectSeq(fut[f].callbacks, LAMBDA g : g # fn)
                    /\ Count(fut'[f].callbacks, fn) = 0
                    /\ ret'.val = Count(fut[f].callbacks, fn)
                    /\ fut'[f].state = fut[f].state
                    /\ handles' = handles /\ ready' = ready /\ log' = log
          /\ Completes(f) =>
                \A fn \in Fns :
                    Cardinality({h \in Ids(handles') \ Ids(handles) :
                                   handles'[h].fn = fn})
                        = Count(fut[f].callbacks, fn)]_vars

\* two registrations of a were removed from the list a, b, a, b stays, and
\* the future is still pending
C5_Witness ==
    /\ ret = Outcome("remove_done_callback", "a", 2)
    /\ fut[1].state = _PENDING
    /\ fut[1].callbacks = <<"b">>

\* C6: FIFO. Handles made by call_soon are invoked in the order the
\* call_soon calls were issued, in the base loop and in the persistable loop
\* (in particular those issued with no tick in between, run by one tick).
C6_Fifo ==
    \A i, j \in Ids(log) :
        (i < j /\ ~handles[log[i]].timer /\ ~handles[log[j]].timer)
            => log[i] < log[j]

\* the persistable loop is inside one tick that has invoked two call_soon
\* handles, in the order they were created
C6_Witness ==
    /\ persist
    /\ Len(stack) = 1
    /\ log = <<1, 2>>
    /\ \A h \in 1..2 : ~handles[h].timer /\ ~handles[h].cancelled

\* C7: timer order. If timer b has been invoked, every timer a with an
\* earlier fire time that existed when b was promoted to the ready list, and
\* was not cancelled, was invoked before b.
C7_TimerOrder ==
    \A a, b \in Ids(handles) :
        (/\ handles[a].timer /\ handles[b].timer
         /\ handles[a].at < handles[b].at
         /\ InLog(b)
         /\ a <= handles[b].seen
         /\ ~handles[a].cancelled)
            => (InLog(a) /\ Pos(a) < Pos(b))

\* timer 1 fires at 1, timer 2, registered after it, fires at 0: both were
\* invoked, timer 2 first
C7_Witness ==
    /\ Len(handles) >= 2
    /\ handles[1].timer /\ handles[2].timer
    /\ handles[1].at = 1 /\ handles[2].at = 0
    /\ log = <<2, 1>>

\* C8: a handle that is cancelled before its callable was invoked is never
\* invoked afterwards.
C8_CancelledNeverRuns ==
    [][\A h \in Ids(handles) :
          (handles[h].cancelled /\ IndexIn(log, h) = 0)
              => IndexIn(log', h) = 0]_vars

\* a handle that a callback cancelled after the tick had counted it was
\* popped and skipped, and the tick is over
C8_Witness ==
    /\ stack = <<>>
    /\ \E h \in Ids(handles) :
          /\ handles[h].counted
          /\ ~InLog(h)
          /\ IndexIn(ready, h) = 0
          /\ IndexIn(scheduled, h) = 0

\* what Handle._run does with an exception of the callable: it reaches
\* call_exception_handler and the tick goes on with the rest of its ready set
Routed ==
    /\ handled' = handled \cup {Top.cur}
    /\ stack' = SetTop("cur", 0)
    /\ ready' = ready
    /\ log' = log
    /\ ret' = ret

\* C9 as stated: whatever a callback raises is routed to the exception
\* handler and the tick goes on.
C9_AnyExceptionRouted ==
    [][\A kind \in ExcKinds : CallbackRaise(kind) => Routed]_vars

\* C9 amended: an exception that is an instance of Exception is routed to
\* the exception handler and the tick goes on; only handles that were invoked
\* reach the handler.
C9_ExceptionRouted ==
    /\ [][CallbackRaise("Exception") => Routed]_vars
    /\ [](handled \subseteq Range(log))

\* a callback raised, the exception reached the handler, and the same tick is
\* now running the next handle
C9_Witness ==
    /\ Len(stack) = 1
    /\ Len(log) >= 2
    /\ log[1] \in handled
    /\ Top.cur = log[2]
    /\ handles[log[1]].seen = 0 /\ handles[log[2]].seen = 0
    /\ Len(handles) = 2

\* C10: at most one tick()/run_forever() is active on a loop.
C10_SingleActivation == Len(stack) <= 1

\* some step ends the run_until_complete that is the innermost activation
UntilEnds ==
    /\ stack # <<>>
    /\ Top.kind = "until"
    /\ Len(stack') < Len(stack)

\* C11: run_until_complete(a) returns normally only with a's result and a
\* done: called on a done awaitable it gives a.result() (or raises the stored
\* exception or CancelledError) at once; called on a pending one it returns
\* nothing before the loop is stopped; when the loop is stopped it raises
\* RuntimeError if a is still pending and otherwise gives a.result(); only
\* stop() or an exception that leaves the loop ends it.
C11_RunUntilComplete ==
    [][/\ \A f \in Futs :
            RunUntilComplete(f) =>
                IF done(f)
                THEN /\ stack' = stack
                     /\ ret'.op = "run_until_complete"
                     /\ ret'.out = ResultOf(f).out
                     /\ ret'.val = ResultOf(f).val
                ELSE /\ Len(stack') = Len(stack) + 1
                     /\ ret' = ret
       /\ UntilEnds =>
            LET a == Top.aw
            IN /\ ret'.op = "run_until_complete"
               /\ ret'.out = "ok" =>
                     /\ fut[a].state = _FINISHED
                     /\ fut[a].exception = "None"
                     /\ ret'.val = fut[a].result
               /\ UntilCheck =>
                     /\ stopping
                     /\ fut[a].state = _PENDING => ret'.out = "RuntimeError"
                     /\ fut[a].state = _CANCELLED
                           => ret'.out = "CancelledError"
                     /\ (fut[a].state = _FINISHED
                           /\ fut[a].exception # "None")
                           => ret'.out = fut[a].exception
                     /\ (fut[a].state = _FINISHED
                           /\ fut[a].exception = "None")
                           => ret'.out = "ok"]_vars

\* run_until_complete returned 5: the future was completed by a callback
\* while the loop ran, and the stop callback of the future was invoked
C11_Witness ==
    /\ stack = <<>>
    /\ ret = Outcome("run_until_complete", "ok", 5)
    /\ Len(log) = 2
    /\ handles[log[1]].fn = "a"
    /\ handles[log[2]].fn = "_run_until_complete_cb"

\* the directive the i-th step call of task t returned
Returned_(t, i) ==
    CallStep(task[t].type, task[t].calls[i].fn, task[t].calls[i].args)

\* C12: whenever a step of a task returned Continue(next), the following
\* step call of the task is next with zero arguments.
C12_ContinueNoArgs ==
    \A t \in Tasks :
        \A i \in Ids(task[t].calls) :
            (i > 1 /\ Returned_(t, i - 1).kind = "continue")
                => /\ task[t].calls[i].fn = Returned_(t, i - 1).next
                   /\ task[t].calls[i].args = <<>>

\* C13: a task whose execute() returns Continue(finish), finish() returning
\* 5: creating it invokes nothing; once one tick() begun after its creation
\* has returned, execute has run and the task is not done; once two have, the
\* task is done with result 5 after exactly the calls execute(), finish().
C13_TwoTicks ==
    /\ [][\A t \in Tasks, type \in TaskTypes :
             TaskCreate(t, type) =>
                /\ log' = log
                /\ task'[t].calls = <<>>
                /\ task'[t].state = _PENDING
                /\ IndexIn(ready', task'[t].callback_handle) # 0
                /\ handles'[task'[t].callback_handle].fn = "_step"]_vars
    /\ [](\A t \in Tasks :
             (task[t].type = "EventuallyFive" /\ stack = <<>>) =>
                /\ task[t].ticks = 0 =>
                      (task[t].calls = <<>> /\ task[t].state = _PENDING)
                /\ task[t].ticks = 1 =>
                      /\ task[t].state = _PENDING
                      /\ task[t].calls = <<[fn |-> "execute", args |-> <<>>]>>
                /\ task[t].ticks >= 2 =>
                      /\ task[t].state = _FINISHED
                      /\ task[t].exception = "None"
                      /\ task[t].result = 5
                      /\ task[t].calls = <<[fn |-> "execute", args |-> <<>>],
                                          [fn |-> "finish", args |-> <<>>]>>)

\* the second tick after the creation of an EventuallyFive has returned
C13_Witness ==
    /\ stack = <<>>
    /\ task[1].type = "EventuallyFive"
    /\ task[1].ticks = 2
    /\ task[1].state = _FINISHED
    /\ task[1].result = 5


\* a step of task t waits in the ready list
StepScheduled(t) ==
    \E i \in Ids(ready) :
        handles[ready[i]].fn = "_step" /\ handles[ready[i]].arg = t

StepDirective(t) ==
    LET first == task[t].next_step = "None"
    IN CallStep(task[t].type,
                IF first THEN "execute" ELSE task[t].next_step,
                IF ~first /\ task[t].awaiting_result # _NO_RESULT
                THEN <<task[t].awaiting_result>> ELSE <<>>)

\* C15: when the step function that _step calls raises E, the task becomes
\* done with exception E, nothing reaches the exception handler of the loop,
\* no step of the task is scheduled and the tick goes on.
C15_StepException ==
    [][\A t \in Tasks :
          (/\ Step
           /\ handles[Top.cur].arg = t
           /\ StepDirective(t).kind = "raise")
             => /\ task'[t].state = _FINISHED
                /\ task'[t].exception = StepDirective(t).exc
                /\ handled' = handled
                /\ ~StepScheduled(t)'
                /\ Len(stack') = Len(stack)]_vars

\* the step handles of task t that wait in the ready list
LiveSteps(t) ==
    {h \in Ids(handles) :
        /\ handles[h].fn = "_step" /\ handles[h].arg = t
        /\ IndexIn(ready, h) # 0}

\* task t is paused with no step scheduled and nothing awaited
Parked(t) ==
    /\ task[t].state = _PENDING
    /\ task[t].paused
    /\ task[t].callback_handle = 0
    /\ task[t].awaiting = 0

\* C16: pause() on a pending task whose step is scheduled cancels that
\* handle; while the task is paused that way no step handle of it waits, no
\* step function is called and the next step stays what it was; play() then
\* schedules exactly one step, for the same next step.
C16_PausePlay ==
    /\ [][\A t \in Tasks :
           /\ (/\ TaskPause(t)
               /\ task[t].state = _PENDING
               /\ ~task[t].paused
               /\ task[t].callback_handle # 0)
                 => /\ handles'[task[t].callback_handle].cancelled
                    /\ LiveSteps(t)' = {}
                    /\ Parked(t)'
                    /\ task'[t].next_step = task[t].next_step
                    /\ ret' = Outcome("pause", "True", t)
           /\ Parked(t) =>
                 /\ task'[t].calls = task[t].calls
                 /\ task'[t].next_step = task[t].next_step
                 /\ (task'[t].paused \/ TaskPlay(t))
           /\ (TaskPlay(t) /\ Parked(t))
                 => /\ ~task'[t].paused
                    /\ Cardinality(LiveSteps(t)') = 1
                    /\ LiveSteps(t)' = {task'[t].callback_handle}
                    /\ ret' = Outcome("play", "True", t)]_vars
    /\ [](\A t \in Tasks : Parked(t) => LiveSteps(t) = {})

\* an EventuallyFive was paused after execute, with finish scheduled, and
\* played again: the cancelled handle was skipped, the new one called finish
C16_Witness ==
    /\ task[1].type = "EventuallyFive"
    /\ task[1].state = _FINISHED
    /\ task[1].calls = <<[fn |-> "execute", args |-> <<>>],
                         [fn |-> "finish", args |-> <<>>]>>
    /\ \E h \in Ids(handles) :
          handles[h].cancelled /\ ~InLog(h) /\ IndexIn(ready, h) = 0

\* C17: cancel() on a pending task that awaits another awaitable cancels the
\* task and the awaited awaitable and clears the awaiting reference.
C17_CancelAwaiting ==
    [][\A t \in Tasks :
          (/\ TaskCancel(t)
           /\ task[t].state = _PENDING
           /\ task[t].awaiting # 0)
             => /\ task'[t].state = _CANCELLED
                /\ fut'[task[t].awaiting].state = _CANCELLED
                /\ task'[t].awaiting = 0]_vars


\* every callback that was scheduled has run and no tick is under way
Quiet == stack = <<>> /\ ready = <<>>

\* the children of the gather future, one per place in the tuple
Child(i) == gather.children[i]

\* C18: the gather future is done with a result only when every child is
\* done, and once all children finished with results and their callbacks
\* have run, its result is the tuple of the children's results in the order
\* the children were given, whatever the order they completed in.
C18_GatherResult ==
    gather # NoGather =>
       /\ (fut[GatherFut].state = _FINISHED /\ fut[GatherFut].exception = "None")
            => /\ \A i \in Ids(gather.children) : done(Child(i))
               /\ fut[GatherFut].result =
                     [i \in Ids(gather.children) |-> fut[Child(i)].result]
       /\ (/\ Quiet
           /\ \A i \in Ids(gather.children) :
                 fut[Child(i)].state = _FINISHED
                 /\ fut[Child(i)].exception = "None")
            => /\ fut[GatherFut].state = _FINISHED
               /\ fut[GatherFut].exception = "None"

\* gather([f2, f1]): the callback of f1 was scheduled before that of f2, and
\* the result lists f2's 6 before f1's 5
C18_Witness ==
    /\ gather.children = <<2, 1>>
    /\ fut[1].result = 5 /\ fut[2].result = 6
    /\ Len(handles) = 2
    /\ handles[1].arg = 1 /\ handles[2].arg = 2
    /\ fut[GatherFut].state = _FINISHED
    /\ fut[GatherFut].result = <<6, 5>>

\* C19: when the completion callback of a child that failed or was cancelled
\* runs on a pending gather future, the gather future becomes done with that
\* failure (the child's exception, or CancelledError); once it is done, later
\* completions of children change nothing of its outcome and raise nothing.
C19_GatherFailure ==
    [][/\ (/\ Running("_child_done")
           /\ ~done(GatherFut)
           /\ (\/ fut[handles[Top.cur].arg].state = _CANCELLED
               \/ fut[handles[Top.cur].arg].exception # "None"))
             => /\ fut'[GatherFut].state = _FINISHED
                /\ fut'[GatherFut].exception =
                      IF fut[handles[Top.cur].arg].state = _CANCELLED
                      THEN "CancelledError"
                      ELSE fut[handles[Top.cur].arg].exception
       /\ (GatherFut \in DOMAIN fut /\ done(GatherFut))
             => fut'[GatherFut] = fut[GatherFut]
       /\ Running("_child_done") => handled' = handled]_vars

\* gather([f1, f2]): f1 failed with E, the gather future took E, and the
\* completion of f2 with a result ran afterwards
C19_Witness ==
    /\ gather.children = <<1, 2>>
    /\ fut[1].exception = "E"
    /\ fut[2].state = _FINISHED /\ fut[2].exception = "None"
    /\ Len(handles) = 2
    /\ handles[1].arg = 1 /\ handles[2].arg = 2
    /\ Quiet
    /\ fut[GatherFut].state = _FINISHED
    /\ fut[GatherFut].exception = "E"

\* a step that is a call of cancel() on the gather future
GatherCancelCall ==
    /\ stack' = stack
    /\ ret'.op = "gather.cancel"

\* what gather.cancel() does when it is called
GatherCancelDoes ==
    GatherCancelCall =>
       IF done(GatherFut)
       THEN ret'.out = "False" /\ fut' = fut
       ELSE /\ \A i \in Ids(gather.children) :
                  /\ done(Child(i))'
                  /\ ~done(Child(i)) => fut'[Child(i)].state = _CANCELLED
            /\ ret'.out = "True" <=>
                  \E i \in Ids(gather.children) : ~done(Child(i))

\* C20 as stated: cancel() on a pending gather future cancels every child
\* and returns True iff a child was cancelled, on a done one it returns False
\* and cancels nothing, and after a cancel() that returned True the gather
\* future, once the scheduled callbacks have run, is done and result()
\* raises CancelledError.
C20_GatherCancel ==
    [][/\ GatherCancelDoes
       /\ (gather'.cancel_true /\ Quiet')
             => /\ done(GatherFut)'
                /\ ResultOf(GatherFut)'.out = "CancelledError"]_vars

\* C20 amended: as C20, but after a cancel() that returned True result()
\* raises CancelledError or the exception of a child that had failed before
\* the cancel().
C20_GatherCancelAmended ==
    [][/\ GatherCancelDoes
       /\ (gather'.cancel_true /\ Quiet')
             => /\ done(GatherFut)'
                /\ \/ ResultOf(GatherFut)'.out = "CancelledError"
                   \/ \E i \in Ids(gather.children) :
                         /\ fut'[Child(i)].state = _FINISHED
                         /\ fut'[Child(i)].exception # "None"
                         /\ ResultOf(GatherFut)'.out =
                               fut'[Child(i)].exception]_vars

\* gather([f1, f2]).cancel() returned True, both children are cancelled and
\* result() of the gather future raised CancelledError
C20_Witness ==
    /\ gather.cancel_true
    /\ gather.children = <<1, 2>>
    /\ fut[1].state = _CANCELLED /\ fut[2].state = _CANCELLED
    /\ Quiet
    /\ fut[GatherFut].state = _FINISHED
    /\ ret = Outcome("result", "CancelledError", GatherFut)


\* the registrations of _await_done: with the awaited future, or scheduled
\* by its completion and not run yet
AwaitRegistrations ==
    Count([i \in Ids(ready) |-> handles[ready[i]].fn], "_await_done")
    + Count(fut[1].callbacks, "_await_done")

\* C28: a task never has more than one scheduled step that has not run, nor
\* a scheduled step together with a registration with the awaitable it
\* awaits, however steps, pause(), play(), cancel() and the completion of
\* the awaited future interleave.
C28_OneStepOrAwait ==
    \A t \in Tasks :
       task[t].type # "None" =>
          Cardinality(LiveSteps(t)) + AwaitRegistrations <= 1

\* a task was paused and played while it awaits: play() returned True, the
\* registration is there and no step is scheduled
C28_Witness ==
    /\ ret = Outcome("play", "True", 1)
    /\ task[1].awaiting # 0
    /\ task[1].state = _PENDING
    /\ AwaitRegistrations = 1
    /\ LiveSteps(1) = {}

\* C29: play() never fails the "Step already scheduled" assertion of
\* _schedule_step, and when it resumes a task that is not awaiting exactly
\* one step is scheduled afterwards.
C29_PlayNeverAsserts ==
    [][\A t \in Tasks :
          TaskPlay(t) =>
             /\ ret'.out # "AssertionError"
             /\ (ret'.out = "True" /\ task'[t].awaiting = 0)
                   => Cardinality(LiveSteps(t)') = 1]_vars

\* C30: when the completion callback of the awaited awaitable runs on a task
\* that is done already, the task's state, result and exception stay as they
\* are, no step is scheduled and nothing is raised.
C30_AwaitDoneIgnored ==
    [][\A t \in Tasks :
          (Running("_await_done") /\ FutureBaseDone(task[t]))
             => /\ task'[t].state = task[t].state
                /\ task'[t].result = task[t].result
                /\ task'[t].exception = task[t].exception
                /\ Len(handles') = Len(handles)
                /\ ready' = ready
                /\ handled' = handled]_vars

\* a task was cancelled while it awaited, the awaited future finished and
\* its _await_done ran
C30_Witness ==
    /\ task[1].state = _CANCELLED
    /\ fut[1].state = _FINISHED
    /\ stack = <<>>
    /\ handled = {}
    /\ \E h \in Ids(handles) : handles[h].fn = "_await_done" /\ InLog(h)


\* the values a store holds, as a set
ItemsOf(s) == {s.items[q] : q \in Ids(s.items)}

\* the persistables a graph reaches from p
RECURSIVE ReachFrom(_, _, _)
ReachFrom(g, seen, n) ==
    IF n = 0 THEN seen
    ELSE ReachFrom(g,
                   seen \cup {a.n : a \in {b \in UNION {ItemsOf(g[i]) :
                                                        i \in seen} :
                                           b.t = "obj"}},
                   n - 1)

Reachable(g, p) == ReachFrom(g, {p}, Cardinality(PObjs))

Dangling(tbl) ==
    {a.n : a \in {b \in UNION {ItemsOf(tbl[i]) : i \in PObjs} :
                    b.t = "ref" /\ ~tbl[b.n].present}}

C23_ErrorsPropagate ==
    [][/\ (/\ ~pers.made
           /\ ret'.op = "Bundle"
           /\ \E i \in Reachable(pers.heap, ret'.val) :
                 PTuple \in ItemsOf(pers.heap[i]))
             => /\ ret'.out \in {"TypeError", "ValueError"}
                /\ pers' = pers
       /\ (/\ pers.made
           /\ ret'.op = "unbundle"
           /\ \E j \in Dangling(pers.bundles) : j \notin pers.registry)
             => /\ ret'.out \notin {"ok"}
                /\ pers'.objs = <<>>]_vars

\* the root refers to a persistable whose store holds a tuple: Bundle raised
\* TypeError and there is no bundle
C23_Witness ==
    /\ pers.heap # <<>>
    /\ pers.heap[1] = PStore("one", <<PObj(2)>>)
    /\ pers.heap[2] = PStore("list", <<PInt, PTuple>>)
    /\ ret = Outcome("Bundle", "TypeError", 1)
    /\ ~pers.made

\* Bundle(root) returned a Bundle in this step
Bundled ==
    /\ ~pers.made
    /\ pers'.made
    /\ ret'.op = "Bundle"

\* C33: one pass of Bundle() makes one sub-bundle of every persistable the
\* root reaches and of no other, calls save_instance_state of each of them
\* once, however often and on whatever path it is reached, and never fails
\* the assertion "Already bundled!"
C33_BundledOnce ==
    [][/\ (~pers.made /\ ret'.op = "Bundle")
             => ret'.out # "AssertionError"
       /\ Bundled =>
             \A i \in PObjs :
                /\ pers'.bundles[i].present
                      <=> i \in Reachable(pers.heap, ret'.val)
                /\ pers'.bundles[i].present
                      => pers'.bundles[i].saves = 1]_vars

\* the root holds the second persistable twice, the second one refers to
\* the root and to itself: the Bundle has one sub-bundle of each
C33_Witness ==
    /\ pers.made
    /\ pers.heap[1] = PStore("list", <<PObj(2), PObj(2)>>)
    /\ pers.heap[2] = PStore("list", <<PObj(1), PObj(2)>>)
    /\ ret = Outcome("Bundle", "ok", 1)
    /\ pers.bundles[1].saves = 1 /\ pers.bundles[2].saves = 1
    /\ pers.bundles[1].items = <<Ref(2), Ref(2)>>
    /\ pers.bundles[2].items = <<Ref(1), Ref(2)>>
    /\ ~pers.bundles[3].present

\* C34: when Bundle(root) has returned, every Reference in a store of the
\* root bundle or of a sub-bundle and the loop reference of every bundle
\* has an entry in the side table of the root, and the one entry that may
\* be None is the entry of the loop of the root persistable
C34_ReferencesHaveEntries ==
    [][Bundled =>
          /\ Dangling(pers'.bundles) = {}
          /\ \A i \in PObjs :
                (pers'.bundles[i].present /\ pers'.bundles[i].lref)
                   => pers'.loopent # "absent"
          /\ pers'.loopent = "None" => pers'.bundles[ret'.val].lref]_vars

\* C35: one pass of unbundle makes at most one instance of an identity, and
\* a Reference decodes to the one instance of its identity, also when that
\* instance is still loading because the Reference closes a cycle
C35_InstantiatedOnce ==
    [][(pers.made /\ ret'.op = "unbundle" /\ ret'.out = "ok") =>
          /\ \A k1, k2 \in Ids(pers'.objs) :
                pers'.objs[k1].id = pers'.objs[k2].id => k1 = k2
          /\ \A k \in Ids(pers'.objs) :
                LET o == pers'.objs[k]
                    b == pers.bundles[o.id]
                IN /\ Len(o.items) = Len(b.items)
                   /\ \A q \in Ids(b.items) :
                         b.items[q].t = "ref" =>
                            /\ o.items[q].t = "inst"
                            /\ pers'.objs[o.items[q].n].id = b.items[q].n]_vars

\* a cycle through three persistables: three instances, and the third one,
\* loaded while the first was still loading, refers to the first
C35_Witness ==
    /\ pers.made
    /\ pers.heap[1] = PStore("one", <<PObj(2)>>)
    /\ pers.heap[2] = PStore("list", <<PObj(3), PObj(2)>>)
    /\ pers.heap[3] = PStore("one", <<PObj(1)>>)
    /\ ret = Outcome("unbundle", "ok", 1)
    /\ Len(pers.objs) = 3
    /\ pers.objs[1].items = <<Inst(2)>>
    /\ pers.objs[2].items = <<Inst(3), Inst(2)>>
    /\ pers.objs[3].items = <<Inst(1)>>


\* ------------------------------------------------------- bundled handles
\* the bundle a handle made by unbundle was made of
SavedOf(c) == pers.saved[pers.copies[c].b]

\* the handle unbundle made
CopyOf(c) == pers.copies[c].h

\* C24: a handle that had run or was cancelled when it was bundled is never
\* invoked by the loop it is unbundled into, and a handle that had run is
\* not put on the ready list by unbundle
C24_DeadHandleNeverRuns ==
    \A c \in Ids(pers.copies) :
        /\ SavedOf(c).ran \/ SavedOf(c).cancelled => ~InLog(CopyOf(c))
        /\ SavedOf(c).ran => Count(ready, CopyOf(c)) = 0

\* the saved handle was pending: it had not run, it does not carry the
\* marker of a handle that ran, and it was not cancelled
PendingWhenSaved(s) == ~s.ran /\ s.when_ready # RAN /\ ~s.cancelled

\* a tick() activation returns to user code at top level
TickEnds ==
    /\ Len(stack) = 1 /\ stack' = <<>>
    /\ Top.kind = "tick" /\ Top.cur = 0 /\ Top.todo = 0

\* C25: the bundle of a pending handle is a snapshot. Cancelling the handle
\* leaves the bundle as it is and the handle is never invoked; unbundle
\* puts the new handle on the ready list once, holding the callable that
\* was saved; the handle is invoked at most once, and a tick that began
\* after the unbundle has invoked it when it returns
C25_PendingHandle ==
    [][ /\ \A b \in Ids(pers.saved) :
            LET h == pers.saved[b].of
            IN PendingWhenSaved(pers.saved[b]) =>
                  /\ handles[h].cancelled # handles'[h].cancelled =>
                        pers'.saved[b] = pers.saved[b]
                  /\ handles[h].cancelled /\ ~InLog(h) => ~InLog(h)'
        /\ \A c \in Ids(pers'.copies) :
            LET k == pers'.copies[c].h
                b == pers'.copies[c].b
            IN PendingWhenSaved(pers'.saved[b]) =>
                  /\ c \notin Ids(pers.copies) =>
                        /\ Count(ready', k) = 1
                        /\ handles'[k].fn = pers'.saved[b].fn
                        /\ handles'[k].fn # "None"
                        /\ ~handles'[k].cancelled
                  /\ Count(log', k) <= 1
                  /\ ~handles'[k].cancelled =>
                        Count(ready', k) + Count(log', k) = 1
                  /\ (TickEnds /\ c \in Ids(pers.copies)
                         /\ pers.copies[c].depth = 0
                         /\ ~handles[k].cancelled) => Count(log', k) = 1
      ]_vars

\* a pending handle was bundled and then cancelled, a tick went by, the
\* bundle was unbundled and the next tick invoked the new handle
C25_Witness ==
    /\ stack = <<>>
    /\ \E c \in Ids(pers.copies) :
          /\ PendingWhenSaved(SavedOf(c))
          /\ handles[SavedOf(c).of].cancelled
          /\ ~InLog(SavedOf(c).of)
          /\ Count(log, CopyOf(c)) = 1
          /\ Count(ready, CopyOf(c)) = 0


\* --------------------------------------------------------- bundled tasks
\* loop l has nothing left to run and no tick of it is active
Idle(l) == LoopOf(l).ready = <<>> /\ (l = pers.cur => stack = <<>>)

\* the task of loop l finished with result v
FinishedWith(l, v) ==
    /\ LoopOf(l).task[1].state = _FINISHED
    /\ LoopOf(l).task[1].exception = "None"
    /\ LoopOf(l).task[1].result = v

\* C26: a task that awaits a child and was made by unbundle, whatever the
\* moment its bundle was made, has finished with the child's result once
\* the child is done and its loop has run everything that was ready
C26_AwaitResumes ==
    \A l \in pers.copy :
        /\ LoopOf(l).task[1].type = "AwaitFive"
        /\ Idle(l)
        /\ LoopOf(l).fut[1].state = _FINISHED
        => FinishedWith(l, LoopOf(l).fut[1].result)


\* unbundle(loop) is called with the loop numbered l
UnbundlesInto(l) ==
    /\ pers'.n = pers.n + 1
    /\ ret'.val = l

\* what loop l had before is there afterwards: its handles as they were,
\* its ready list and invocation log extended at most, its timers
Kept(l) ==
    /\ SubSeq(LoopOf(l)'.handles, 1, Len(LoopOf(l).handles))
          = LoopOf(l).handles
    /\ \A h \in Ids(LoopOf(l).handles) :
          Count(LoopOf(l)'.ready, h) = Count(LoopOf(l).ready, h)
    /\ LoopOf(l)'.scheduled = LoopOf(l).scheduled
    /\ LoopOf(l)'.log = LoopOf(l).log

\* the task of loop l, if it is a Continue task, has result 5 when it is
\* done, and is done when its loop has run everything that was ready
CompletesWithFive(l) ==
    LoopOf(l).task[1].type = "EventuallyFive" =>
        /\ LoopOf(l).task[1].state # _PENDING => FinishedWith(l, 5)
        /\ Idle(l) => FinishedWith(l, 5)

C31_DoneTaskIsLeftAlone ==
    [][\A t \in Tasks :
          task[t].state # _PENDING =>
             /\ task'[t].calls = task[t].calls
             /\ (Step => handled' = handled)]_vars



\* ------------------------------------------------------------ one tick
\* handles of a loop whose callbacks call tick() and call_soon()
MaxNested == 3

\* callbacks that schedule callbacks and tick the loop they run on
NextNested ==
    \/ \E fn \in LoopFns : CallSoonUpTo(MaxNested, fn)
    \/ Tick
    \/ TickReturn
    \/ RunNext
    \/ CallbackReturn

SpecNested == Init /\ [][NextNested]_vars

\* the handles activation k of the loop is still to pop: the first todo
\* entries of the ready list
ToRun(k) ==
    {ready[i] : i \in {j \in Ids(ready) : j <= stack[k].todo}}

\* C32: a tick runs only the handles that were ready when its run phase
\* began: while the innermost activation is in its run phase no handle joins
\* the ones it is still to pop, so what a callback enqueues waits for the
\* next tick
C32_TickRunsReadySet ==
    [][(stack # <<>> /\ Len(stack') = Len(stack)
          /\ stack'[Len(stack)].todo <= Top.todo)
          => ToRun(Len(stack))' \subseteq ToRun(Len(stack))]_vars


\* ------------------------------------------------- order of timer handles
\* arguments a timer is made with
TimerArgs == {0, 1}

\* fire times of the timers that are compared
TimerWhens == 0..MaxTime

\* three timer handles made with TimerHandle(when, fn, args, loop), of the
\* base or of the persistable package, on a loop with nothing scheduled
InitTimers ==
    /\ persist \in BOOLEAN
    /\ now = 0
    /\ \E w \in [1..3 -> TimerWhens], f \in [1..3 -> Fns],
          a \in [1..3 -> TimerArgs] :
          handles = [i \in 1..3 |-> NewHandle(f[i], a[i], TRUE, w[i])]
    /\ ready = <<>>
    /\ scheduled = <<>>
    /\ stack = <<>>
    /\ stopping = FALSE
    /\ thread_id = 0
    /\ fut = [f \in Futs |-> [state |-> _PENDING, result |-> 0,
                              exception |-> "None", callbacks |-> <<>>]]
    /\ log = <<>>
    /\ handled = {}
    /\ ret = Outcome("init", "ok", 0)
    /\ task = [t \in Tasks |-> NoTask]
    /\ gather = NoGather
    /\ pers = NoPers

\* what Python prints for the bool
Bool(b) == IF b THEN "True" ELSE "False"

\* a TimerHandle.__eq__ that looks at the fire time only
HandleEqWhen(hs, x, y) == hs[x].when = hs[y].when

\* TimerHandle.__eq__ for two TimerHandles
HandleEq(hs, x, y) ==
    /\ hs[x].when = hs[y].when
    /\ hs[x].fn = hs[y].fn
    /\ hs[x].arg = hs[y].arg
    /\ hs[x].cancelled = hs[y].cancelled

\* x < y is evaluated
TimerLt(x, y) ==
    /\ ret' = Outcome("__lt__", Bool(HandleLt(handles, x, y)), 10 * x + y)
    /\ UNCHANGED <<task, gather, pers, persist, now, handles, ready,
                   scheduled, stack, stopping, thread_id, fut, log, handled>>

\* x == y is evaluated
TimerEq(x, y) ==
    /\ ret' = Outcome("__eq__", Bool(HandleEq(handles, x, y)), 10 * x + y)
    /\ UNCHANGED <<task, gather, pers, persist, now, handles, ready,
                   scheduled, stack, stopping, thread_id, fut, log, handled>>

\* timers are cancelled and compared
NextTimers ==
    \/ \E h \in Ids(handles) : HandleCancel(h)
    \/ \E x, y \in Ids(handles) : TimerLt(x, y)
    \/ \E x, y \in Ids(handles) : TimerEq(x, y)

SpecTimers == InitTimers /\ [][NextTimers]_vars

\* < on the timers is transitive
LtTransitive ==
    \A a, b, c \in Ids(handles) :
        (HandleLt(handles, a, b) /\ HandleLt(handles, b, c))
           => HandleLt(handles, a, c)

\* how many of a < b, a == b, b < a hold
Relations(a, b) ==
    Cardinality({n \in 1..3 :
                    \/ n = 1 /\ HandleLt(handles, a, b)
                    \/ n = 2 /\ HandleEq(handles, a, b)
                    \/ n = 3 /\ HandleLt(handles, b, a)})

\* C36: for two timer handles exactly one of a < b, a == b, b < a holds, and
\* < is transitive
C36_StrictTotalOrder ==
    /\ \A a, b \in Ids(handles) : Relations(a, b) = 1
    /\ LtTransitive

\* C36 amended: < compares the fire times and nothing else and is
\* transitive; a == b holds when fire time, callable, arguments and cancelled
\* flag are equal; at most one of a < b, a == b, b < a holds, and none holds
\* exactly when the fire times are equal and another field differs
C36_OrderedByFireTime ==
    /\ \A a, b \in Ids(handles) :
          /\ HandleLt(handles, a, b) <=> handles[a].when < handles[b].when
          /\ Relations(a, b) <= 1
          /\ Relations(a, b) = 0 <=>
                /\ handles[a].when = handles[b].when
                /\ \/ handles[a].fn # handles[b].fn
                   \/ handles[a].arg # handles[b].arg
                   \/ handles[a].cancelled # handles[b].cancelled
    /\ LtTransitive

\* two timers with one fire time and different callables were compared with
\* == after they had compared neither way with <
C36_Witness ==
    /\ Len(handles) = 3
    /\ handles[1].when = handles[2].when
    /\ handles[1].fn # handles[2].fn
    /\ ~handles[1].cancelled /\ ~handles[2].cancelled
    /\ ~HandleLt(handles, 1, 2) /\ ~HandleLt(handles, 2, 1)
    /\ ret = Outcome("__eq__", "False", 12)


\* ---------------------------------------------------- bundled paused tasks
\* a task is made on the first loop and paused, the paused task is bundled,
\* the bundle is unbundled and the task made of it is played
NextPausedBundle ==
    \/ pers.cur = 1 /\ pers.copy = {} /\ TaskCreate(1, "EventuallyFive")
    \/ TopTick
    \/ TickReturn
    \/ RunNext
    \/ Step
    \/ Insert
    \/ Remove
    \/ pers.copy = {} /\ pers.tb = <<>> /\ TaskPause(1)
    \/ pers.cur \in pers.copy /\ TaskPlay(1)
    \/ SwitchLoop
    \/ task[1].paused /\ BundleTask(1)
    \/ \E l \in {1, 2}, b \in Ids(pers.tb) : UnbundleTask(l, b)

SpecPausedBundle == InitTaskBundle /\ [][NextPausedBundle]_vars

\* the task of a loop in state S is not paused and not done, no handle of
\* its _step or _await_done is on the ready list and its _await_done is no
\* done callback of the future: nothing will ever run it
Stranded(S) ==
    /\ S.task[1].type # "None"
    /\ ~S.task[1].paused
    /\ S.task[1].state = _PENDING
    /\ \A i \in Ids(S.ready) :
          \/ S.handles[S.ready[i]].cancelled
          \/ S.handles[S.ready[i]].fn \notin {"_step", "_await_done"}
    /\ \A i \in Ids(S.fut[1].callbacks) :
          S.fut[1].callbacks[i] # "_await_done"

\* C37: the task unbundle makes of the bundle of a paused task is not left
\* not paused, not done, without a scheduled step and without an await
\* registration: it is paused as the bundled task was, so that play()
\* schedules its saved next step
C37_PausedStaysResumable ==
    /\ [][\A l \in {1, 2} :
          (/\ UnbundlesInto(l)
           /\ \A b \in Ids(pers.tb) :
                 pers.tb[b].tk.paused /\ pers.tb[b].tk.state = _PENDING)
             => /\ ~Stranded(LoopOf(l)')
                /\ LoopOf(l)'.task[1].paused]_vars
    /\ [][(/\ pers.cur \in pers.copy
            /\ task[1].state = _PENDING
            /\ \A b \in Ids(pers.tb) : pers.tb[b].tk.paused
            /\ ret'.op = "play")
              => ret'.out = "True"]_vars


\* ------------------------------------------- done callbacks of a task
\* tasks that finish on their own, done callbacks added to them at any
\* moment between the callbacks of the loop, and the ticks that run them
NextTaskCallbacks ==
    \/ \E t \in Tasks, type \in {"Five", "EventuallyFive"} :
          TaskCreate(t, type)
    \/ \E t \in Tasks, fn \in LoopFns : TaskAddDoneCallback(t, fn)
    \/ TopTick
    \/ TickReturn
    \/ RunNext
    \/ CallbackReturn
    \/ Step
    \/ Insert
    \/ Remove

SpecTaskCallbacks == Init /\ [][NextTaskCallbacks]_vars

\* C38: add_done_callback(fn) on an awaitable that is done schedules fn,
\* also when the awaitable is a task that finished and was removed from its
\* loop: a handle of fn joins the ready list
C38_DoneCallbackScheduled ==
    [][\A t \in Tasks, fn \in LoopFns :
          (TaskAddDoneCallback(t, fn) /\ FutureBaseDone(task[t]))
             => /\ Len(ready') = Len(ready) + 1
                /\ handles'[ready'[Len(ready')]].fn = fn
                /\ handles'[ready'[Len(ready')]].arg = TaskAw(t)]_vars


\* ------------------------------------------------- gather of no children
\* gather() is given any of the tuples of children, the empty one included
NextGatherNone ==
    \/ Gather(<<>>)
    \/ NextGather

SpecGatherNone == InitGather /\ [][NextGatherNone]_vars

\* C39: the future gather() returns for no children is done, with the
\* empty tuple for result, once the loop has run everything that was ready
C39_EmptyGatherDone ==
    (/\ ret = Outcome("gather", "ok", GatherFut)
     /\ gather.children = <<>>
     /\ stack = <<>> /\ ready = <<>>)
       => /\ fut[GatherFut].state = _FINISHED
          /\ fut[GatherFut].exception = "None"
          /\ fut[GatherFut].result = <<>>


\* ------------------------------------------------- stop() before a run
\* C40: a run_forever() called while the loop is not running does not find
\* the stopping flag set by an earlier stop(), so that its first test of the
\* flag starts a tick, and the flag is clear whenever a run_forever() returns
C40_StaleStopIgnored ==
    /\ [][(stack = <<>> /\ RunForever /\ stack' # <<>>) => ~stopping']_vars
    /\ [][(/\ LoopCheck
           /\ Len(stack') < Len(stack)) => ~stopping']_vars

====
